---- MODULE Spec2Model ----
(***************************************************************************)
(* Claim / file lifecycle reconciliation and status tracking of the PDF    *)
(* download service: db_handler.py (claim reconciler, file set resolver,   *)
(* download tracker) driven by main.py (download cycle).                   *)
(*                                                                         *)
(* The two Oracle stores are modelled by their contents: the upstream DMS  *)
(* claim view (dms_claims) and the two BGATE tracking tables               *)
(* (claim_status, pdf).  Every db_handler function is an operator on the   *)
(* table values, computed as its SQL computes it; the actions apply the    *)
(* operators at the places where main.py and db_handler.py call them.      *)
(***************************************************************************)
EXTENDS Integers, Sequences, FiniteSets, TLC

\* ----- bounds of the model ------------------------------------------------
NumFiles == 3
MaxTs == 2
MaxCycles == 2

\* ----- program constants --------------------------------------------------
\* Oracle IN-clause ceiling (999 in the code, scaled down)
batch_size == 1
\* error message bound (2000 in the code, scaled down)
ErrorLimit == 1

Files == 1..NumFiles

\* SQL NULL / Python None for numeric columns, and the "N/A" path literal
Null == -1
NA == 0

\* TC_FILE_UPLOAD_INFO.BILL_ID: the claim an upstream file belongs to
BillId(f) == (f + 1) \div 2

Claims == {BillId(f) : f \in Files}

\* TC_FILE_UPLOAD_INFO.CREATE_DATE of a file (a day number)
CreateDate(f) == f

\* error texts a failed download can report
ErrorMessages == {<<1>>, <<1, 2>>}

\* LABOUR_AMOUNT values of an upstream claim row
Amounts == {1, 2}

VARIABLES
    dms_claims,      \* upstream claim view as the dms_query last read it: claim id -> [UPDATE_DATE]; 0 = not in the filtered view
    claim_status,    \* CLAIM_STATUS table: function on the claim ids that have a row
    pdf,             \* PDF_DOWNLOAD_DMS_CLAIMS table: sequence of rows
    pc,              \* position of the download job
    region_id,       \* last lookup results of the job
    status_id,
    claim_ids,       \* needs_download / claim_ids of the running pass
    idx,             \* loop index of the running loop
    all_files,       \* all_files / files_df of the running pass
    cycles,          \* number of download cycles started
    upstream_files,  \* stub upstream: the '.pdf' rows of TC_FILE_UPLOAD_INFO held fixed during one resolver run
    matching_results,\* matching_results of the running matching pass: claim id -> match_success
    match_args,      \* arguments of one call of match_invoices_with_dms_estimates
    match_out,       \* its return value
    parallel_enabled,\* config["performance"]["parallel_downloads"]
    db_failed,       \* the log_download_status calls that raised: [FILE_ID, cycle]
    matcher,         \* the matching pass of the audit_matching_job thread: [pc, claim_ids, idx, matching_results]
    writers,         \* the log_download_status calls in flight: file id -> [pc, status, total_files, success_count]
    claim_last_modified, \* the CLAIM_LAST_MODIFIED column of PDF_DOWNLOAD_DMS_CLAIMS: file id -> timestamp
    sequential       \* the tables run_download_process_sequential leaves for the files_df and download results of the running parallel cycle

\* the state of the threads that run beside the download job
aux_vars == <<matcher, writers, claim_last_modified, sequential>>

\* the variables the download cycle never touches
other_vars == <<upstream_files, matching_results, match_args, match_out,
                parallel_enabled, db_failed, aux_vars>>

vars == <<dms_claims, claim_status, pdf, pc, region_id, status_id,
          claim_ids, idx, all_files, cycles, other_vars>>

\* ----- helpers ------------------------------------------------------------
RECURSIVE SortedSeq(_)
\* the ascending sequence of a finite set of integers (ORDER BY ... ASC)
SortedSeq(S) ==
    IF S = {} THEN <<>>
    ELSE LET m == CHOOSE x \in S : \A y \in S : x <= y
         IN <<m>> \o SortedSeq(S \ {m})

Range(s) == {s[i] : i \in DOMAIN s}

\* variant: a chunk runs to the end of the list
Min_mut(a, b) == b

Min(a, b) == IF a <= b THEN a ELSE b

\* Python truthiness test "not x" on a lookup result
Falsy(x) == x = Null \/ x = 0

\* main.download_pdf: {storage}/{YYYYMMDD}/CLAIM_{claim_id}_{file_id}.pdf
LocalPath(claim_id, file_id, create_date) ==
    (create_date * 10 + claim_id) * 10 + file_id

\* ----- db_handler operators -----------------------------------------------

\* variant: the update branch of the MERGE writes AUDIT_STATUS too
upsert_claim_status_mut(cs, claim_data) ==
    LET c == claim_data.claim_id IN
    [x \in DOMAIN cs \cup {c} |->
        IF x = c
        THEN [LABOUR_AMOUNT_DMS |-> claim_data.labour_amount,
              LAST_DMS_UPDATE_DATE |-> claim_data.last_dms_update,
              ATTACHMENT_STATUS |-> IF c \in DOMAIN cs THEN cs[c].ATTACHMENT_STATUS ELSE "PENDING",
              TOTAL_FILES_COUNT |-> IF c \in DOMAIN cs THEN cs[c].TOTAL_FILES_COUNT ELSE Null,
              DOWNLOADED_FILES_COUNT |-> IF c \in DOMAIN cs THEN cs[c].DOWNLOADED_FILES_COUNT ELSE Null,
              AUDIT_STATUS |-> "NULL"]
        ELSE cs[x]]

\* variant: the update branch of the MERGE resets the download progress
upsert_claim_status_mut2(cs, claim_data) ==
    LET c == claim_data.claim_id IN
    [x \in DOMAIN cs \cup {c} |->
        IF x = c
        THEN [LABOUR_AMOUNT_DMS |-> claim_data.labour_amount,
              LAST_DMS_UPDATE_DATE |-> claim_data.last_dms_update,
              ATTACHMENT_STATUS |-> "PENDING",
              TOTAL_FILES_COUNT |-> Null,
              DOWNLOADED_FILES_COUNT |-> Null,
              AUDIT_STATUS |-> IF c \in DOMAIN cs THEN cs[c].AUDIT_STATUS ELSE "NULL"]
        ELSE cs[x]]

\* MERGE INTO CLAIM_STATUS ... ON CLAIM_ID
upsert_claim_status(cs, claim_data) ==
    LET c == claim_data.claim_id IN
    IF c \in DOMAIN cs
    THEN [cs EXCEPT ![c].LABOUR_AMOUNT_DMS = claim_data.labour_amount,
                    ![c].LAST_DMS_UPDATE_DATE = claim_data.last_dms_update]
    ELSE [x \in DOMAIN cs \cup {c} |->
            IF x = c
            THEN [LABOUR_AMOUNT_DMS |-> claim_data.labour_amount,
                  LAST_DMS_UPDATE_DATE |-> claim_data.last_dms_update,
                  ATTACHMENT_STATUS |-> "PENDING",
                  TOTAL_FILES_COUNT |-> Null,
                  DOWNLOADED_FILES_COUNT |-> Null,
                  AUDIT_STATUS |-> "NULL"]
            ELSE cs[x]]

\* the dms_query result: claims of the filtered view, ORDER BY REPORT_DATE
\* (report dates ascend with the claim id in the model)
DmsDf(dms) == SortedSeq({c \in Claims : dms[c].UPDATE_DATE > 0})

\* variant: the timestamp comparison admits equality
NeedsDownload_mut(cs, dms, c) ==
    \/ c \notin DOMAIN cs
    \/ dms[c].UPDATE_DATE >= cs[c].LAST_DMS_UPDATE_DATE
    \/ cs[c].ATTACHMENT_STATUS # "COMPLETE"

\* the selection mask of get_claims_needing_download for one upstream claim
NeedsDownload(cs, dms, c) ==
    \/ c \notin DOMAIN cs
    \/ dms[c].UPDATE_DATE > cs[c].LAST_DMS_UPDATE_DATE
    \/ cs[c].ATTACHMENT_STATUS # "COMPLETE"

RECURSIVE UpsertAll_mut(_, _, _, _)
\* variant: only the claims that need a download are upserted
UpsertAll_mut(cs, dms, amt, rows) ==
    IF rows = <<>> THEN cs
    ELSE IF NeedsDownload(cs, dms, Head(rows))
         THEN UpsertAll_mut(upsert_claim_status(cs,
                               [claim_id |-> Head(rows),
                                labour_amount |-> amt[Head(rows)],
                                last_dms_update |-> dms[Head(rows)].UPDATE_DATE]),
                            dms, amt, Tail(rows))
         ELSE UpsertAll_mut(cs, dms, amt, Tail(rows))

RECURSIVE UpsertAll(_, _, _, _)
\* the loop "for _, row in dms_df.iterrows(): upsert_claim_status(...)"
UpsertAll(cs, dms, amt, rows) ==
    IF rows = <<>> THEN cs
    ELSE UpsertAll(upsert_claim_status(cs,
                      [claim_id |-> Head(rows),
                       labour_amount |-> amt[Head(rows)],
                       last_dms_update |-> dms[Head(rows)].UPDATE_DATE]),
                   dms, amt, Tail(rows))

\* variant: the selection is computed after the upserts
get_claims_needing_download_mut2(cs, dms, amt, rid, sid) ==
    IF Falsy(rid) \/ Falsy(sid)
    THEN [needs |-> <<>>, cs |-> cs]
    ELSE LET dms_df == DmsDf(dms)
             stored == UpsertAll(cs, dms, amt, dms_df)
         IN IF dms_df = <<>>
            THEN [needs |-> <<>>, cs |-> cs]
            ELSE [needs |-> SelectSeq(dms_df, LAMBDA c : NeedsDownload(stored, dms, c)),
                  cs |-> stored]

\* variant: the lookup results are tested after the upserts
get_claims_needing_download_mut(cs, dms, amt, rid, sid) ==
    LET dms_df == DmsDf(dms) IN
    IF dms_df = <<>>
    THEN [needs |-> <<>>, cs |-> cs]
    ELSE IF Falsy(rid) \/ Falsy(sid)
         THEN [needs |-> <<>>, cs |-> UpsertAll(cs, dms, amt, dms_df)]
         ELSE [needs |-> IF DOMAIN cs # {}
                         THEN SelectSeq(dms_df, LAMBDA c : NeedsDownload(cs, dms, c))
                         ELSE dms_df,
               cs |-> UpsertAll(cs, dms, amt, dms_df)]

\* get_claims_needing_download: the selected claim ids and the new CLAIM_STATUS;
\* dms holds the UPDATE_DATE column and amt the LABOUR_AMOUNT column of dms_df
get_claims_needing_download(cs, dms, amt, rid, sid) ==
    IF Falsy(rid) \/ Falsy(sid)
    THEN [needs |-> <<>>, cs |-> cs]
    ELSE LET dms_df == DmsDf(dms) IN
         IF dms_df = <<>>
         THEN [needs |-> <<>>, cs |-> cs]
         ELSE [needs |-> IF DOMAIN cs # {}
                         THEN SelectSeq(dms_df, LAMBDA c : NeedsDownload(cs, dms, c))
                         ELSE dms_df,
               cs |-> UpsertAll(cs, dms, amt, dms_df)]

\* variant: the update only touches the rows of failed downloads
mark_old_files_obsolete_mut(pdf_t, claim_id) ==
    [i \in DOMAIN pdf_t |->
        IF /\ pdf_t[i].CLAIM_ID = claim_id
           /\ pdf_t[i].IS_LATEST_VERSION = "Y"
           /\ pdf_t[i].STATUS = "FAILED"
        THEN [pdf_t[i] EXCEPT !.IS_LATEST_VERSION = "N"]
        ELSE pdf_t[i]]

\* UPDATE PDF_DOWNLOAD_DMS_CLAIMS SET IS_LATEST_VERSION = 'N' WHERE CLAIM_ID = :claim_id
mark_old_files_obsolete(pdf_t, claim_id) ==
    [i \in DOMAIN pdf_t |->
        IF pdf_t[i].CLAIM_ID = claim_id /\ pdf_t[i].IS_LATEST_VERSION = "Y"
        THEN [pdf_t[i] EXCEPT !.IS_LATEST_VERSION = "N"]
        ELSE pdf_t[i]]

\* the files_query for one batch of claim ids: ORDER BY CLAIM_ID, CREATE_DATE
FilesQuery(files, batch) ==
    LET hit == {f \in files : BillId(f) \in Range(batch)}
        row(f) == [CLAIM_ID |-> BillId(f), FILE_ID |-> f, CREATE_DATE |-> CreateDate(f)]
        ord == SortedSeq({BillId(f) * 100 + CreateDate(f) * 10 + f : f \in hit})
    IN [i \in DOMAIN ord |-> row(ord[i] % 10)]

\* files_df.groupby("CLAIM_ID").size(): one (claim, count) row per claim that has rows
FileCounts(files_df) ==
    LET keys == SortedSeq({files_df[i].CLAIM_ID : i \in DOMAIN files_df})
    IN [k \in DOMAIN keys |->
          [CLAIM_ID |-> keys[k],
           total_files |-> Cardinality({i \in DOMAIN files_df : files_df[i].CLAIM_ID = keys[k]})]]

\* UPDATE CLAIM_STATUS SET TOTAL_FILES_COUNT = :total_files WHERE CLAIM_ID = :claim_id
update_claim_file_count(cs, claim_id, total_files) ==
    IF claim_id \in DOMAIN cs
    THEN [cs EXCEPT ![claim_id].TOTAL_FILES_COUNT = total_files]
    ELSE cs

\* variant: the count ignores IS_LATEST_VERSION
SuccessCount_mut(pdf_t, claim_id) ==
    Cardinality({i \in DOMAIN pdf_t :
                    /\ pdf_t[i].CLAIM_ID = claim_id
                    /\ pdf_t[i].STATUS = "SUCCESS"})

\* SUCCESS_COUNT of the stats_query
SuccessCount(pdf_t, claim_id) ==
    Cardinality({i \in DOMAIN pdf_t :
                    /\ pdf_t[i].CLAIM_ID = claim_id
                    /\ pdf_t[i].STATUS = "SUCCESS"
                    /\ pdf_t[i].IS_LATEST_VERSION = "Y"})

\* variant: any successful download makes the claim COMPLETE
AttachmentStatusOf_mut(success_count, total_files) ==
    IF success_count = 0 THEN "PENDING" ELSE "COMPLETE"

\* "Determine attachment status"
AttachmentStatusOf(success_count, total_files) ==
    IF success_count = 0 THEN "PENDING"
    ELSE IF success_count = total_files THEN "COMPLETE"
    ELSE "PARTIAL"

\* variant: the UPDATE leaves DOWNLOADED_FILES_COUNT out
update_attachment_status_mut(cs, pdf_t, claim_id) ==
    IF claim_id \notin DOMAIN cs
    THEN cs
    ELSE [cs EXCEPT ![claim_id].ATTACHMENT_STATUS =
                       AttachmentStatusOf(SuccessCount(pdf_t, claim_id),
                                          cs[claim_id].TOTAL_FILES_COUNT)]

update_attachment_status(cs, pdf_t, claim_id) ==
    IF claim_id \notin DOMAIN cs
    THEN cs
    ELSE LET total_files == cs[claim_id].TOTAL_FILES_COUNT
             success_count == SuccessCount(pdf_t, claim_id)
         IN [cs EXCEPT ![claim_id].ATTACHMENT_STATUS =
                           AttachmentStatusOf(success_count, total_files),
                       ![claim_id].DOWNLOADED_FILES_COUNT = success_count]

\* variant: the message is stored as supplied
TruncateError_mut(error_msg) == error_msg

\* "Truncate error message if too long"; the empty sequence is NULL
TruncateError(error_msg) ==
    IF error_msg = <<>> THEN <<>>
    ELSE IF Len(error_msg) > ErrorLimit THEN SubSeq(error_msg, 1, ErrorLimit)
    ELSE error_msg

\* variant: the path of the source row always replaces the stored one
MergedPath_mut(dest_path, src_path, src_status) == src_path

\* the LOCAL_FILE_PATH an update of a matched row stores
MergedPath(dest_path, src_path, src_status) ==
    IF src_status = "SUCCESS" THEN src_path ELSE dest_path

\* variant: an update keeps the stored IS_LATEST_VERSION
MergedIsLatest_mut(dest_is_latest) == dest_is_latest

\* the IS_LATEST_VERSION an update of a matched row stores
MergedIsLatest(dest_is_latest) == "Y"

\* INSERT of one row: a table has no row order, its rows are kept by FILE_ID
InsertRow(pdf_t, row) ==
    LET k == Cardinality({i \in DOMAIN pdf_t : pdf_t[i].FILE_ID <= row.FILE_ID})
    IN SubSeq(pdf_t, 1, k) \o <<row>> \o SubSeq(pdf_t, k + 1, Len(pdf_t))

\* variant: the update branch of the MERGE writes CLAIM_ID too
MergePdf_mut3(pdf_t, src) ==
    IF \E i \in DOMAIN pdf_t : pdf_t[i].FILE_ID = src.FILE_ID
    THEN [i \in DOMAIN pdf_t |->
            IF pdf_t[i].FILE_ID = src.FILE_ID
            THEN [pdf_t[i] EXCEPT
                    !.CLAIM_ID = src.CLAIM_ID,
                    !.STATUS = src.STATUS,
                    !.ERROR_MESSAGE = src.ERROR_MESSAGE,
                    !.IS_LATEST_VERSION = MergedIsLatest(pdf_t[i].IS_LATEST_VERSION),
                    !.LOCAL_FILE_PATH =
                        MergedPath(pdf_t[i].LOCAL_FILE_PATH, src.LOCAL_FILE_PATH, src.STATUS)]
            ELSE pdf_t[i]]
    ELSE InsertRow(pdf_t, [src EXCEPT !.IS_LATEST_VERSION = "Y"])

\* variant: a plain INSERT in place of the MERGE
MergePdf_mut(pdf_t, src) == InsertRow(pdf_t, [src EXCEPT !.IS_LATEST_VERSION = "Y"])

\* variant: the MERGE matches on FILE_ID and STATUS
MergePdf_mut2(pdf_t, src) ==
    IF \E i \in DOMAIN pdf_t : pdf_t[i].FILE_ID = src.FILE_ID /\ pdf_t[i].STATUS = src.STATUS
    THEN [i \in DOMAIN pdf_t |->
            IF pdf_t[i].FILE_ID = src.FILE_ID /\ pdf_t[i].STATUS = src.STATUS
            THEN [pdf_t[i] EXCEPT !.ERROR_MESSAGE = src.ERROR_MESSAGE,
                                  !.IS_LATEST_VERSION = "Y"]
            ELSE pdf_t[i]]
    ELSE InsertRow(pdf_t, [src EXCEPT !.IS_LATEST_VERSION = "Y"])

\* MERGE INTO PDF_DOWNLOAD_DMS_CLAIMS ... ON FILE_ID (the columns that
\* the download cycle never reads: CLAIM_NO, REMOTE_FILE_NAME,
\* CLAIM_LAST_MODIFIED and DOWNLOAD_TIMESTAMP, are left out of the rows)
MergePdf(pdf_t, src) ==
    IF \E i \in DOMAIN pdf_t : pdf_t[i].FILE_ID = src.FILE_ID
    THEN [i \in DOMAIN pdf_t |->
            IF pdf_t[i].FILE_ID = src.FILE_ID
            THEN [pdf_t[i] EXCEPT
                    !.STATUS = src.STATUS,
                    !.ERROR_MESSAGE = src.ERROR_MESSAGE,
                    !.IS_LATEST_VERSION = MergedIsLatest(pdf_t[i].IS_LATEST_VERSION),
                    !.LOCAL_FILE_PATH =
                        MergedPath(pdf_t[i].LOCAL_FILE_PATH, src.LOCAL_FILE_PATH, src.STATUS)]
            ELSE pdf_t[i]]
    ELSE InsertRow(pdf_t, [src EXCEPT !.IS_LATEST_VERSION = "Y"])

\* log_download_status: the merge, then update_attachment_status(claim_id)
log_download_status(cs, pdf_t, file_id, claim_id, local_path, status, error_msg) ==
    LET src == [FILE_ID |-> file_id,
                CLAIM_ID |-> claim_id,
                LOCAL_FILE_PATH |-> IF local_path # NA THEN local_path ELSE Null,
                STATUS |-> status,
                ERROR_MESSAGE |-> TruncateError(error_msg),
                IS_LATEST_VERSION |-> "Y"]
        merged == MergePdf(pdf_t, src)
    IN [pdf |-> merged, cs |-> update_attachment_status(cs, merged, claim_id)]

\* variant: the ATTACHMENT_STATUS condition is missing from the WHERE clause
get_claims_ready_for_processing_mut(cs) ==
    LET hit == {c \in DOMAIN cs : cs[c].AUDIT_STATUS \in {"NULL", "PENDING"}}
        ord == SortedSeq({cs[c].LAST_DMS_UPDATE_DATE * 10 + c : c \in hit})
    IN [i \in DOMAIN ord |-> ord[i] % 10]

\* SELECT ... FROM CLAIM_STATUS WHERE ATTACHMENT_STATUS = 'COMPLETE' AND
\* (AUDIT_STATUS IS NULL OR AUDIT_STATUS = 'PENDING') ORDER BY LAST_DMS_UPDATE_DATE
get_claims_ready_for_processing(cs) ==
    LET hit == {c \in DOMAIN cs : /\ cs[c].ATTACHMENT_STATUS = "COMPLETE"
                                  /\ cs[c].AUDIT_STATUS \in {"NULL", "PENDING"}}
        ord == SortedSeq({cs[c].LAST_DMS_UPDATE_DATE * 10 + c : c \in hit})
    IN [i \in DOMAIN ord |-> ord[i] % 10]

\* SELECT LOCAL_FILE_PATH FROM PDF_DOWNLOAD_DMS_CLAIMS WHERE CLAIM_ID = :claim_id
\* AND STATUS = 'SUCCESS' AND IS_LATEST_VERSION = 'Y' AND LOCAL_FILE_PATH IS NOT NULL
get_claim_pdf_files(pdf_t, claim_id) ==
    {pdf_t[i].LOCAL_FILE_PATH :
        i \in {k \in DOMAIN pdf_t : /\ pdf_t[k].CLAIM_ID = claim_id
                                    /\ pdf_t[k].STATUS = "SUCCESS"
                                    /\ pdf_t[k].IS_LATEST_VERSION = "Y"
                                    /\ pdf_t[k].LOCAL_FILE_PATH # Null}}

\* variant: the UPDATE has no WHERE clause
update_audit_status_mut(cs, claim_id, audit_status) ==
    [c \in DOMAIN cs |-> [cs[c] EXCEPT !.AUDIT_STATUS = audit_status]]

\* UPDATE CLAIM_STATUS SET AUDIT_STATUS = :audit_status WHERE CLAIM_ID = :claim_id
update_audit_status(cs, claim_id, audit_status) ==
    IF claim_id \in DOMAIN cs
    THEN [cs EXCEPT ![claim_id].AUDIT_STATUS = audit_status]
    ELSE cs

\* variant: every claim that has been through processing is read again
get_claims_ready_for_audit_mut(cs) ==
    LET hit == {c \in DOMAIN cs : cs[c].AUDIT_STATUS # "NULL"}
        ord == SortedSeq({cs[c].LAST_DMS_UPDATE_DATE * 10 + c : c \in hit})
    IN [i \in DOMAIN ord |-> ord[i] % 10]

\* SELECT ... FROM CLAIM_STATUS WHERE AUDIT_STATUS = 'PENDING' ORDER BY LAST_DMS_UPDATE_DATE
get_claims_ready_for_audit(cs) ==
    LET hit == {c \in DOMAIN cs : cs[c].AUDIT_STATUS = "PENDING"}
        ord == SortedSeq({cs[c].LAST_DMS_UPDATE_DATE * 10 + c : c \in hit})
    IN [i \in DOMAIN ord |-> ord[i] % 10]

\* claims_df.head(max_claims)
Head_n(df, n) == SubSeq(df, 1, Min(n, Len(df)))

\* ----- matching_functions operators --------------------------------------

\* "x or 0" on an amount
OrZero(x) == IF x = Null THEN 0 ELSE x

\* |a - b|
Abs(a, b) == IF a >= b THEN a - b ELSE b - a

\* tolerance = total_dms_amount * (tolerance_pct / 100.0) if total_dms_amount > 0
\* else 0, kept in hundredths so that the arithmetic stays in the integers
Tolerance100(total_dms_amount, tolerance_pct) ==
    IF total_dms_amount > 0 THEN total_dms_amount * tolerance_pct ELSE 0

\* variant: each amount is given the whole tolerance
amounts_match_mut(amount1, amount2, tolerance100) ==
    IF amount1 = 0 /\ amount2 = 0 THEN TRUE
    ELSE 100 * Abs(amount1, amount2) <= tolerance100

\* _amounts_match(amount1, amount2, tolerance / 2), the tolerance in hundredths
amounts_match(amount1, amount2, tolerance100) ==
    IF amount1 = 0 /\ amount2 = 0 THEN TRUE
    ELSE 200 * Abs(amount1, amount2) <= tolerance100

\* match_invoices_with_dms_estimates: the extracted amounts (the mocked
\* _mock_extract_amounts_from_pdfs) are arguments; the reason is the list of
\* the mismatches it names
match_invoices_with_dms_estimates(labour_amount_dms, part_amount_dms, extracted_labour, extracted_part, tolerance_pct) ==
    LET total_dms_amount == OrZero(labour_amount_dms) + OrZero(part_amount_dms)
        tolerance100 == Tolerance100(total_dms_amount, tolerance_pct)
        labour_match == amounts_match(OrZero(labour_amount_dms), extracted_labour, tolerance100)
        part_match == amounts_match(OrZero(part_amount_dms), extracted_part, tolerance100)
    IN [match_success |-> labour_match /\ part_match,
        reason |-> (IF labour_match THEN <<>> ELSE <<"labour">>)
                      \o (IF part_match THEN <<>> ELSE <<"parts">>)]

\* ----- initial state ------------------------------------------------------
\* no other thread has started
InitAux ==
    /\ matcher = [pc |-> "idle", claim_ids |-> <<>>, idx |-> 1, matching_results |-> <<>>]
    /\ writers = <<>>
    /\ claim_last_modified = <<>>
    /\ sequential = <<>>

Init ==
    /\ dms_claims = [c \in Claims |-> [UPDATE_DATE |-> 0]]
    /\ claim_status = <<>>
    /\ pdf = <<>>
    /\ pc = "idle"
    /\ region_id = Null
    /\ status_id = Null
    /\ claim_ids = <<>>
    /\ idx = 1
    /\ all_files = <<>>
    /\ cycles = 0
    /\ upstream_files = {}
    /\ matching_results = <<>>
    /\ match_args = <<>>
    /\ match_out = <<>>
    /\ parallel_enabled = FALSE
    /\ db_failed = {}
    /\ InitAux

\* ----- the download job (main.run_download_process_sequential) -------------

EndCycle ==
    /\ pc' = "idle"
    /\ region_id' = Null
    /\ status_id' = Null
    /\ claim_ids' = <<>>
    /\ idx' = 1
    /\ all_files' = <<>>

\* get_new_files_to_download, line 418: the claim reconciler runs.  When the
\* dms_query runs, the upstream view has moved on since the last read: claims
\* have entered the filtered view and UPDATE_DATEs have advanced (upd); amt is
\* the LABOUR_AMOUNT column it reads.  A failed lookup returns before the
\* dms_query, so nothing is read.
Reconcile(rid, sid, amt, upd) ==
    /\ pc = "idle"
    /\ cycles < MaxCycles
    /\ cycles' = cycles + 1
    /\ IF Falsy(rid) \/ Falsy(sid)
       THEN \A c \in Claims : upd[c] = dms_claims[c].UPDATE_DATE
       ELSE \A c \in Claims : upd[c] >= dms_claims[c].UPDATE_DATE
    /\ dms_claims' = [c \in Claims |-> [UPDATE_DATE |-> upd[c]]]
    /\ LET r == get_claims_needing_download(claim_status, dms_claims', amt, rid, sid) IN
        /\ claim_status' = r.cs
        /\ claim_ids' = r.needs
    /\ region_id' = rid
    /\ status_id' = sid
    /\ pc' = "resolver"
    /\ idx' = 1
    /\ UNCHANGED <<pdf, all_files>>
    /\ UNCHANGED other_vars

\* get_new_files_to_download, lines 420-422: nothing to do, the cycle ends
ResolverEmpty ==
    /\ pc = "resolver"
    /\ claim_ids = <<>>
    /\ EndCycle
    /\ UNCHANGED <<dms_claims, claim_status, pdf, cycles>>
    /\ UNCHANGED other_vars

\* get_new_files_to_download, lines 424-437: the resolver's own lookups
ResolverLookup(rid, sid) ==
    /\ pc = "resolver"
    /\ claim_ids # <<>>
    /\ IF Falsy(rid) \/ Falsy(sid)
       THEN EndCycle
       ELSE /\ pc' = "mark"
            /\ idx' = 1
            /\ region_id' = rid
            /\ status_id' = sid
            /\ UNCHANGED <<claim_ids, all_files>>
    /\ UNCHANGED <<dms_claims, claim_status, pdf, cycles>>
    /\ UNCHANGED other_vars

\* variant: the loop stops after its first iteration
MarkLoopDone_mut(k, ids) == k > 1

\* has the loop over claim_ids (lines 440-441) run to its end?
MarkLoopDone(k, ids) == k > Len(ids)

\* one iteration of "for claim_id in claim_ids: mark_old_files_obsolete(claim_id)"
MarkStep ==
    /\ pc = "mark"
    /\ IF MarkLoopDone(idx, claim_ids)
       THEN /\ pc' = "query"
            /\ idx' = 1
            /\ pdf' = pdf
       ELSE /\ pdf' = mark_old_files_obsolete(pdf, claim_ids[idx])
            /\ idx' = idx + 1
            /\ pc' = pc
    /\ UNCHANGED <<dms_claims, claim_status, region_id, status_id,
                   claim_ids, all_files, cycles>>
    /\ UNCHANGED other_vars

\* one iteration of the batch loop (lines 447-485), or its exit (487-489);
\* dms_files is the set of '.pdf' rows TC_FILE_UPLOAD_INFO holds for the
\* claims of the batch when the files_query runs
QueryStep(dms_files) ==
    /\ pc = "query"
    /\ IF idx <= Len(claim_ids)
       THEN /\ LET batch == SubSeq(claim_ids, idx, Min(idx + batch_size - 1, Len(claim_ids)))
               IN /\ \A f \in dms_files : BillId(f) \in Range(batch)
                  /\ all_files' = all_files \o FilesQuery(dms_files, batch)
            /\ idx' = idx + batch_size
            /\ pc' = pc
            /\ UNCHANGED <<claim_ids, region_id, status_id>>
       ELSE IF all_files = <<>>
            THEN dms_files = {} /\ EndCycle
            ELSE /\ dms_files = {}
                 /\ pc' = "count"
                 /\ idx' = 1
                 /\ UNCHANGED <<claim_ids, all_files, region_id, status_id>>
    /\ UNCHANGED <<dms_claims, claim_status, pdf, cycles>>
    /\ UNCHANGED other_vars

\* variant: the files are handed to the download loop after the first count
CountLoopDone_mut(k, file_counts) == k > 1

\* has "for _, row in file_counts.iterrows()" run to its end?
CountLoopDone(k, file_counts) == k > Len(file_counts)

\* one iteration of "for _, row in file_counts.iterrows()" (lines 513-514),
\* or the return of files_df to the download loop
CountStep ==
    /\ pc = "count"
    /\ LET file_counts == FileCounts(all_files) IN
       IF ~CountLoopDone(idx, file_counts)
       THEN /\ claim_status' = update_claim_file_count(claim_status,
                                   file_counts[idx].CLAIM_ID, file_counts[idx].total_files)
            /\ idx' = idx + 1
            /\ pc' = pc
       ELSE /\ pc' = "download"
            /\ idx' = 1
            /\ UNCHANGED claim_status
    /\ UNCHANGED <<dms_claims, pdf, region_id, status_id, claim_ids,
                   all_files, cycles>>
    /\ UNCHANGED other_vars

\* one iteration of the download loop (main.py lines 264-298): download_pdf,
\* then log_download_status with SUCCESS and the path, or FAILED and "N/A"
DownloadStep(ok, error) ==
    /\ pc = "download"
    /\ idx <= Len(all_files)
    /\ LET row == all_files[idx]
           local_path == IF ok THEN LocalPath(row.CLAIM_ID, row.FILE_ID, row.CREATE_DATE) ELSE NA
           r == IF ok
                THEN log_download_status(claim_status, pdf, row.FILE_ID, row.CLAIM_ID,
                                         local_path, "SUCCESS", <<>>)
                ELSE log_download_status(claim_status, pdf, row.FILE_ID, row.CLAIM_ID,
                                         NA, "FAILED", error)
       IN /\ pdf' = r.pdf
          /\ claim_status' = r.cs
    /\ idx' = idx + 1
    /\ UNCHANGED <<dms_claims, pc, region_id, status_id, claim_ids,
                   all_files, cycles>>
    /\ UNCHANGED other_vars

\* variant: the batch is given up once a latest record is FAILED
DownloadLoopDone_mut(k, files_df) ==
    \/ k > Len(files_df)
    \/ \E i \in DOMAIN pdf : pdf[i].STATUS = "FAILED" /\ pdf[i].IS_LATEST_VERSION = "Y"

\* has "for index, row in files_to_download_df.iterrows()" run to its end?
DownloadLoopDone(k, files_df) == k > Len(files_df)

\* the download loop is exhausted: the cycle ends
DownloadDone ==
    /\ pc = "download"
    /\ DownloadLoopDone(idx, all_files)
    /\ EndCycle
    /\ UNCHANGED <<dms_claims, claim_status, pdf, cycles>>
    /\ UNCHANGED other_vars

LookupResults == {Null, 1}

Next ==
    \/ \E rid \in LookupResults, sid \in LookupResults, amt \in [Claims -> Amounts],
          upd \in [Claims -> 0..MaxTs] : Reconcile(rid, sid, amt, upd)
    \/ ResolverEmpty
    \/ \E rid \in LookupResults, sid \in LookupResults : ResolverLookup(rid, sid)
    \/ MarkStep
    \/ \E dms_files \in SUBSET Files : QueryStep(dms_files)
    \/ CountStep
    \/ \E ok \in BOOLEAN, error \in ErrorMessages : DownloadStep(ok, error)
    \/ DownloadDone

Spec == Init /\ [][Next]_vars

\* ----- the download job when log_download_status raises --------------------

InitErr ==
    /\ dms_claims = [c \in Claims |-> [UPDATE_DATE |-> 0]]
    /\ claim_status = <<>>
    /\ pdf = <<>>
    /\ pc = "idle"
    /\ region_id = Null
    /\ status_id = Null
    /\ claim_ids = <<>>
    /\ idx = 1
    /\ all_files = <<>>
    /\ cycles = 0
    /\ upstream_files = {}
    /\ matching_results = <<>>
    /\ match_args = <<>>
    /\ match_out = <<>>
    /\ parallel_enabled \in BOOLEAN
    /\ db_failed = {}
    /\ InitAux

\* an iteration of the download loop in which log_download_status raises
\* (db_handler.py lines 775-795: the MERGE is rolled back and the error is
\* raised again).  In run_download_process_sequential the call is not inside a
\* try of the loop body, so the error leaves the loop and is caught at line
\* 315: the cycle ends.  In run_download_process_parallel the call is inside
\* the try of lines 355-392: the loop goes on to the next result.  One call
\* fails in a behaviour.
LogDownloadRaises ==
    /\ pc = "download"
    /\ idx <= Len(all_files)
    /\ db_failed = {}
    /\ db_failed' = {[FILE_ID |-> all_files[idx].FILE_ID, cycle |-> cycles]}
    /\ IF parallel_enabled
       THEN /\ idx' = idx + 1
            /\ UNCHANGED <<pc, region_id, status_id, claim_ids, all_files>>
       ELSE EndCycle
    /\ UNCHANGED <<dms_claims, claim_status, pdf, cycles>>
    /\ UNCHANGED <<upstream_files, matching_results, match_args, match_out, parallel_enabled, aux_vars>>

NextErr ==
    \/ Next
    \/ LogDownloadRaises

SpecErr == InitErr /\ [][NextErr]_vars

\* ----- download cycles, processing passes and matching passes -------------

\* max_claims_per_batch of both passes (10 and 20 in the code, scaled down)
max_claims == 2

\* tolerance_percentage of the configuration (its default)
tolerance_percentage == 0

RECURSIVE MarkAll(_, _)
\* the loop "for claim_id in claim_ids: mark_old_files_obsolete(claim_id)"
MarkAll(pdf_t, ids) ==
    IF ids = <<>> THEN pdf_t
    ELSE MarkAll(mark_old_files_obsolete(pdf_t, Head(ids)), Tail(ids))

RECURSIVE QueryAll(_, _, _)
\* the batch loop: the concatenated results of the files_query per chunk
QueryAll(files, ids, i) ==
    IF i > Len(ids) THEN <<>>
    ELSE FilesQuery(files, SubSeq(ids, i, Min(i + batch_size - 1, Len(ids))))
            \o QueryAll(files, ids, i + batch_size)

RECURSIVE CountAll(_, _)
\* the loop "for _, row in file_counts.iterrows(): update_claim_file_count(...)"
CountAll(cs, file_counts) ==
    IF file_counts = <<>> THEN cs
    ELSE CountAll(update_claim_file_count(cs, Head(file_counts).CLAIM_ID,
                                          Head(file_counts).total_files),
                  Tail(file_counts))

RECURSIVE RecordAll(_, _, _, _)
\* the download loop of run_download_process_sequential: the files of ok are
\* downloaded, the others fail; returns the two tables
RecordAll(cs, pdf_t, files_df, ok) ==
    IF files_df = <<>> THEN [cs |-> cs, pdf |-> pdf_t]
    ELSE LET row == Head(files_df)
             r == IF row.FILE_ID \in ok
                  THEN log_download_status(cs, pdf_t, row.FILE_ID, row.CLAIM_ID,
                           LocalPath(row.CLAIM_ID, row.FILE_ID, row.CREATE_DATE),
                           "SUCCESS", <<>>)
                  ELSE log_download_status(cs, pdf_t, row.FILE_ID, row.CLAIM_ID,
                           NA, "FAILED", <<1, 2>>)
         IN RecordAll(r.cs, r.pdf, Tail(files_df), ok)

\* one complete run of run_download_process_sequential with the lookup codes
\* resolved: reconciliation, marking, enumeration, counts, downloads
DownloadCycle(amt, upd, files, ok) ==
    /\ pc = "idle"
    /\ cycles < MaxCycles
    /\ cycles' = cycles + 1
    /\ \A c \in Claims : upd[c] >= dms_claims[c].UPDATE_DATE
    /\ dms_claims' = [c \in Claims |-> [UPDATE_DATE |-> upd[c]]]
    /\ \E r \in {get_claims_needing_download(claim_status, dms_claims', amt, 1, 1)} :
       \E marked \in {MarkAll(pdf, r.needs)} :
       \E files_df \in {QueryAll(files, r.needs, 1)} :
       \E counted \in {CountAll(r.cs, FileCounts(files_df))} :
       \E done \in {RecordAll(counted, marked, files_df, ok)} :
          /\ \A f \in files : BillId(f) \in Range(r.needs)
          /\ ok \subseteq files
          /\ IF files_df = <<>>
             THEN claim_status' = r.cs /\ pdf' = marked
             ELSE claim_status' = done.cs /\ pdf' = done.pdf
    /\ UNCHANGED <<pc, region_id, status_id, claim_ids, idx, all_files>>
    /\ UNCHANGED other_vars

\* process_claims_batch_pdfs, lines 482-491: the pass reads the claims ready
\* for processing
ProcessRead ==
    /\ pc = "idle"
    /\ LET claims_df == get_claims_ready_for_processing(claim_status) IN
       IF claims_df = <<>>
       THEN UNCHANGED <<pc, claim_ids, idx>>
       ELSE /\ claim_ids' = Head_n(claims_df, max_claims)
            /\ idx' = 1
            /\ pc' = "processing"
    /\ UNCHANGED <<dms_claims, claim_status, pdf, region_id, status_id, all_files, cycles>>
    /\ UNCHANGED other_vars

\* one iteration of the loop of process_claims_batch_pdfs (lines 497-559);
\* existing are the paths that os.path.exists finds on the disk
ProcessStep(existing) ==
    /\ pc = "processing"
    /\ idx <= Len(claim_ids)
    /\ LET claim_id == claim_ids[idx]
           pdf_files == get_claim_pdf_files(pdf, claim_id)
           existing_files == pdf_files \cap existing
       IN /\ existing \subseteq pdf_files
          /\ IF pdf_files = {} \/ existing_files = {}
             THEN UNCHANGED claim_status
             ELSE claim_status' = update_audit_status(claim_status, claim_id, "PENDING")
    /\ idx' = idx + 1
    /\ UNCHANGED <<dms_claims, pdf, pc, region_id, status_id, claim_ids, all_files, cycles>>
    /\ UNCHANGED other_vars

\* the loop is exhausted: the pass returns
ProcessDone ==
    /\ pc = "processing"
    /\ idx > Len(claim_ids)
    /\ pc' = "idle"
    /\ claim_ids' = <<>>
    /\ idx' = 1
    /\ UNCHANGED <<dms_claims, claim_status, pdf, region_id, status_id, all_files, cycles>>
    /\ UNCHANGED other_vars

\* variant: a claim without processing results passes the audit
batch_match_claims_mut(cs, pdf_t, claims_to_audit, part, el, ep) ==
    [c \in Range(claims_to_audit) |->
        IF get_claim_pdf_files(pdf_t, c) = {}
        THEN TRUE
        ELSE match_invoices_with_dms_estimates(cs[c].LABOUR_AMOUNT_DMS, part[c],
                 el[c], ep[c], tolerance_percentage).match_success]

\* batch_match_claims over the claims read: no processing results, or the
\* result of match_invoices_with_dms_estimates
batch_match_claims(cs, pdf_t, claims_to_audit, part, el, ep) ==
    [c \in Range(claims_to_audit) |->
        IF get_claim_pdf_files(pdf_t, c) = {}
        THEN FALSE
        ELSE match_invoices_with_dms_estimates(cs[c].LABOUR_AMOUNT_DMS, part[c],
                 el[c], ep[c], tolerance_percentage).match_success]

\* run_batch_audit_matching, lines 601-638: the pass reads the claims ready
\* for audit and matches them; part is the PART_AMOUNT_DMS column of the rows
\* read, el and ep the labour and parts amounts extracted for each claim
MatchRead(part, el, ep) ==
    /\ pc = "idle"
    /\ LET claims_df == get_claims_ready_for_audit(claim_status) IN
       IF claims_df = <<>>
       THEN UNCHANGED <<pc, claim_ids, idx, matching_results>>
       ELSE /\ claim_ids' = Head_n(claims_df, max_claims)
            /\ matching_results' = batch_match_claims(claim_status, pdf, claim_ids', part, el, ep)
            /\ idx' = 1
            /\ pc' = "matching"
    /\ UNCHANGED <<dms_claims, claim_status, pdf, region_id, status_id, all_files, cycles>>
    /\ UNCHANGED <<upstream_files, match_args, match_out, parallel_enabled, db_failed, aux_vars>>

\* one iteration of "for claim_id, result in matching_results.items()"
MatchStep ==
    /\ pc = "matching"
    /\ idx <= Len(claim_ids)
    /\ claim_status' = update_audit_status(claim_status, claim_ids[idx],
                            IF matching_results[claim_ids[idx]] THEN "COMPLETE" ELSE "REJECTED")
    /\ idx' = idx + 1
    /\ UNCHANGED <<dms_claims, pdf, pc, region_id, status_id, claim_ids, all_files, cycles>>
    /\ UNCHANGED other_vars

\* the loop is exhausted: the pass returns
MatchDone ==
    /\ pc = "matching"
    /\ idx > Len(claim_ids)
    /\ pc' = "idle"
    /\ claim_ids' = <<>>
    /\ idx' = 1
    /\ matching_results' = <<>>
    /\ UNCHANGED <<dms_claims, claim_status, pdf, region_id, status_id, all_files, cycles>>
    /\ UNCHANGED <<upstream_files, match_args, match_out, parallel_enabled, db_failed, aux_vars>>

\* the upstream files the resolver can be given in a cycle: those of the
\* claims the reconciler selects
NeededFiles(amt, upd) ==
    LET dms == [c \in Claims |-> [UPDATE_DATE |-> upd[c]]]
        needs == get_claims_needing_download(claim_status, dms, amt, 1, 1).needs
    IN {f \in Files : BillId(f) \in Range(needs)}

\* the claims a matching pass reads
AuditReady == Range(Head_n(get_claims_ready_for_audit(claim_status), max_claims))

\* the upstream of the audit specification: the amounts are the same in
\* every cycle, and for each selected claim the resolver returns either all
\* of its files or none of them
NextAudit ==
    \/ \E amt \in {[c \in Claims |-> 1]} :
          \E upd \in {u \in [Claims -> 0..MaxTs] :
                         \A c \in Claims : u[c] >= dms_claims[c].UPDATE_DATE} :
          \E files \in {{f \in NeededFiles(amt, upd) : BillId(f) \in S} :
                            S \in SUBSET Claims} :
          \E ok \in SUBSET files :
              DownloadCycle(amt, upd, files, ok)
    \/ ProcessRead
    \/ \E existing \in SUBSET {LocalPath(BillId(f), f, CreateDate(f)) : f \in Files} :
          ProcessStep(existing)
    \/ ProcessDone
    \/ \E part \in [AuditReady -> {0, 1}], el \in [AuditReady -> Amounts],
            ep \in [AuditReady -> {0, 1}] : MatchRead(part, el, ep)
    \/ MatchStep
    \/ MatchDone

SpecAudit == Init /\ [][NextAudit]_vars

\* ----- the File Set Resolver's batch loop against a stub upstream ----------

\* the lists of distinct claim ids
ClaimIdLists ==
    {ids \in UNION {[1..n -> Claims] : n \in 0..Cardinality(Claims)} :
        \A i, j \in DOMAIN ids : ids[i] = ids[j] => i = j}

\* get_new_files_to_download at line 443, entered with any list of distinct
\* claim ids, the upstream file table holding any set of rows
InitChunk ==
    /\ dms_claims = [c \in Claims |-> [UPDATE_DATE |-> 0]]
    /\ claim_status = <<>>
    /\ pdf = <<>>
    /\ pc = "query"
    /\ region_id = 1
    /\ status_id = 1
    /\ claim_ids \in ClaimIdLists
    /\ idx = 1
    /\ all_files = <<>>
    /\ cycles = 1
    /\ upstream_files \in SUBSET Files
    /\ matching_results = <<>>
    /\ match_args = <<>>
    /\ match_out = <<>>
    /\ parallel_enabled = FALSE
    /\ db_failed = {}
    /\ InitAux

\* an iteration of the batch loop, the files_query reading the stub upstream
QueryStub ==
    QueryStep(IF idx <= Len(claim_ids)
              THEN {f \in upstream_files :
                      BillId(f) \in Range(SubSeq(claim_ids, idx,
                                                 Min(idx + batch_size - 1, Len(claim_ids))))}
              ELSE {})

NextChunk == QueryStub

SpecChunk == InitChunk /\ [][NextChunk]_vars

\* ----- match_invoices_with_dms_estimates on bounded amounts ---------------

MaxAmount == 3

\* the amounts of a call: small ones and those of the documented scenarios
MatchAmounts == 0..MaxAmount \cup {500, 600, 1000}

\* values of config["audit_matching"]["tolerance_percentage"]
Percentages == {0, 50, 100}

InitMatch ==
    /\ pc = "match_call"
    /\ match_args \in [labour_amount_dms : MatchAmounts \cup {Null},
                       part_amount_dms : MatchAmounts \cup {Null},
                       extracted_labour : MatchAmounts,
                       extracted_part : MatchAmounts,
                       tolerance_pct : Percentages]
    /\ match_out = <<>>
    /\ dms_claims = [c \in Claims |-> [UPDATE_DATE |-> 0]]
    /\ claim_status = <<>>
    /\ pdf = <<>>
    /\ region_id = Null
    /\ status_id = Null
    /\ claim_ids = <<>>
    /\ idx = 1
    /\ all_files = <<>>
    /\ cycles = 0
    /\ upstream_files = {}
    /\ matching_results = <<>>
    /\ parallel_enabled = FALSE
    /\ db_failed = {}
    /\ InitAux

\* one call of match_invoices_with_dms_estimates
MatchCall ==
    /\ pc = "match_call"
    /\ match_out' = match_invoices_with_dms_estimates(
                        match_args.labour_amount_dms, match_args.part_amount_dms,
                        match_args.extracted_labour, match_args.extracted_part,
                        match_args.tolerance_pct)
    /\ pc' = "match_done"
    /\ UNCHANGED <<dms_claims, claim_status, pdf, region_id, status_id, claim_ids,
                   idx, all_files, cycles, upstream_files, matching_results, match_args,
                   parallel_enabled, db_failed, aux_vars>>

NextMatch == MatchCall

SpecMatch == InitMatch /\ [][NextMatch]_vars

\* ----- maintenance: the sweeps of db_handler.py and the monitor's commands -

\* DELETE FROM PDF_DOWNLOAD_DMS_CLAIMS WHERE STATUS = 'FAILED' AND
\* IS_LATEST_VERSION = 'N' AND DOWNLOAD_TIMESTAMP < SYSDATE - :days; old is the
\* set of file ids whose DOWNLOAD_TIMESTAMP is before the age bound
cleanup_old_failed_records(pdf_t, old) ==
    SelectSeq(pdf_t, LAMBDA r : ~(/\ r.STATUS = "FAILED"
                                  /\ r.IS_LATEST_VERSION = "N"
                                  /\ r.FILE_ID \in old))

\* monitor.py: DELETE FROM PDF_DOWNLOAD_DMS_CLAIMS WHERE STATUS = 'FAILED' AND
\* DOWNLOAD_TIMESTAMP < SYSDATE - :days, after the operator answered "y"
cleanup_old_records(pdf_t, old) ==
    SelectSeq(pdf_t, LAMBDA r : ~(r.STATUS = "FAILED" /\ r.FILE_ID \in old))

\* monitor.py: UPDATE ... SET STATUS = 'PENDING' ... WHERE STATUS = 'FAILED', on
\* the given file ids (ERROR_MESSAGE = NULL too), or, with no file ids, on every
\* row with RETRY_COUNT < 3 OR RETRY_COUNT IS NULL; no code writes RETRY_COUNT
\* but this statement, and a reset row is no longer FAILED
reset_failed_for_retry(pdf_t, file_ids) ==
    [i \in DOMAIN pdf_t |->
        IF pdf_t[i].STATUS # "FAILED" THEN pdf_t[i]
        ELSE IF file_ids = {} THEN [pdf_t[i] EXCEPT !.STATUS = "PENDING"]
        ELSE IF pdf_t[i].FILE_ID \in file_ids
             THEN [pdf_t[i] EXCEPT !.STATUS = "PENDING", !.ERROR_MESSAGE = <<>>]
             ELSE pdf_t[i]]

\* the sweep of db_handler.py runs against the tracking table
CleanupOldFailed(old) ==
    /\ pdf' = cleanup_old_failed_records(pdf, old)
    /\ UNCHANGED <<dms_claims, claim_status, pc, region_id, status_id, claim_ids,
                   idx, all_files, cycles>>
    /\ UNCHANGED other_vars

\* monitor.py --cleanup DAYS, confirmed
MonitorCleanup(old) ==
    /\ pdf' = cleanup_old_records(pdf, old)
    /\ UNCHANGED <<dms_claims, claim_status, pc, region_id, status_id, claim_ids,
                   idx, all_files, cycles>>
    /\ UNCHANGED other_vars

\* monitor.py --reset-failed, and reset_failed_for_retry called with file ids
MonitorResetFailed(file_ids) ==
    /\ pdf' = reset_failed_for_retry(pdf, file_ids)
    /\ UNCHANGED <<dms_claims, claim_status, pc, region_id, status_id, claim_ids,
                   idx, all_files, cycles>>
    /\ UNCHANGED other_vars

\* the download cycle with the maintenance commands run beside it
NextMaint ==
    \/ Next
    \/ \E old \in SUBSET Files : CleanupOldFailed(old)
    \/ \E old \in SUBSET Files : MonitorCleanup(old)
    \/ \E file_ids \in SUBSET Files : MonitorResetFailed(file_ids)

SpecMaint == Init /\ [][NextMaint]_vars

\* ----- the audit_matching_job beside the processing pass -------------------
\* The scheduler runs pdf_processing_job and audit_matching_job in threads of
\* its own, and the download job runs a processing and a matching pass at its
\* end: a matching pass can run between any two statements of a processing pass.

\* run_batch_audit_matching in the thread of audit_matching_job: the pass reads
\* the claims ready for audit and matches them
AuditJobRead(part, el, ep) ==
    /\ matcher.pc = "idle"
    /\ LET claims_df == get_claims_ready_for_audit(claim_status)
           claims_to_audit == Head_n(claims_df, max_claims)
       IN /\ claims_df # <<>>
          /\ matcher' = [pc |-> "matching", claim_ids |-> claims_to_audit, idx |-> 1,
                         matching_results |->
                             batch_match_claims(claim_status, pdf, claims_to_audit, part, el, ep)]
    /\ UNCHANGED <<dms_claims, claim_status, pdf, pc, region_id, status_id, claim_ids,
                   idx, all_files, cycles>>
    /\ UNCHANGED <<upstream_files, matching_results, match_args, match_out,
                   parallel_enabled, db_failed, writers, claim_last_modified, sequential>>

\* one iteration of its loop over matching_results.items()
AuditJobStep ==
    /\ matcher.pc = "matching"
    /\ matcher.idx <= Len(matcher.claim_ids)
    /\ LET claim_id == matcher.claim_ids[matcher.idx] IN
          claim_status' = update_audit_status(claim_status, claim_id,
                              IF matcher.matching_results[claim_id]
                              THEN "COMPLETE" ELSE "REJECTED")
    /\ matcher' = [matcher EXCEPT !.idx = @ + 1]
    /\ UNCHANGED <<dms_claims, pdf, pc, region_id, status_id, claim_ids,
                   idx, all_files, cycles>>
    /\ UNCHANGED <<upstream_files, matching_results, match_args, match_out,
                   parallel_enabled, db_failed, writers, claim_last_modified, sequential>>

\* its loop is exhausted: the job returns
AuditJobDone ==
    /\ matcher.pc = "matching"
    /\ matcher.idx > Len(matcher.claim_ids)
    /\ matcher' = [pc |-> "idle", claim_ids |-> <<>>, idx |-> 1, matching_results |-> <<>>]
    /\ UNCHANGED <<dms_claims, claim_status, pdf, pc, region_id, status_id, claim_ids,
                   idx, all_files, cycles>>
    /\ UNCHANGED <<upstream_files, matching_results, match_args, match_out,
                   parallel_enabled, db_failed, writers, claim_last_modified, sequential>>

\* download cycles and processing passes in one thread, the audit_matching_job
\* in another
NextConc ==
    \/ \E amt \in {[c \in Claims |-> 1]} :
          \E upd \in {u \in [Claims -> 0..MaxTs] :
                         \A c \in Claims : u[c] >= dms_claims[c].UPDATE_DATE} :
          \E files \in {{f \in NeededFiles(amt, upd) : BillId(f) \in S} :
                            S \in SUBSET Claims} :
          \E ok \in SUBSET files :
              DownloadCycle(amt, upd, files, ok)
    \/ ProcessRead
    \/ \E existing \in SUBSET {LocalPath(BillId(f), f, CreateDate(f)) : f \in Files} :
          ProcessStep(existing)
    \/ ProcessDone
    \/ \E part \in [AuditReady -> {0, 1}], el \in [AuditReady -> Amounts],
            ep \in [AuditReady -> {0, 1}] : AuditJobRead(part, el, ep)
    \/ AuditJobStep
    \/ AuditJobDone

SpecConc == Init /\ [][NextConc]_vars

\* ----- two log_download_status calls of overlapping download jobs ----------
\* download_job is scheduled with max_instances from the configuration: two
\* instances of the cycle can record outcomes at the same time.  A call is a
\* MERGE (committed), then the stats_query of update_attachment_status, then
\* its UPDATE of CLAIM_STATUS; each statement is atomic, the call is not.

\* the claim of the two calls, and the file each call records
RaceClaim == 1
RaceFiles == {f \in Files : BillId(f) = RaceClaim}

\* the stats_query of update_attachment_status: TOTAL_FILES_COUNT and SUCCESS_COUNT
attachment_stats(cs, pdf_t, claim_id) ==
    [total_files |-> cs[claim_id].TOTAL_FILES_COUNT,
     success_count |-> SuccessCount(pdf_t, claim_id)]

\* variant: the UPDATE never lowers DOWNLOADED_FILES_COUNT
write_attachment_status_mut(cs, claim_id, success_count, total_files) ==
    IF success_count < cs[claim_id].DOWNLOADED_FILES_COUNT
    THEN cs
    ELSE [cs EXCEPT ![claim_id].ATTACHMENT_STATUS =
                        AttachmentStatusOf(success_count, total_files),
                    ![claim_id].DOWNLOADED_FILES_COUNT = success_count]

\* the update_query of update_attachment_status with the values computed from
\* the stats that were read
write_attachment_status(cs, claim_id, success_count, total_files) ==
    [cs EXCEPT ![claim_id].ATTACHMENT_STATUS =
                   AttachmentStatusOf(success_count, total_files),
               ![claim_id].DOWNLOADED_FILES_COUNT = success_count]

\* the rows a file can have from an earlier cycle: none, or its outcome then;
\* the running cycles have marked the rows of the claim 'N'
PriorRow(f, prior) ==
    [FILE_ID |-> f,
     CLAIM_ID |-> BillId(f),
     LOCAL_FILE_PATH |-> IF prior = "SUCCESS"
                         THEN LocalPath(BillId(f), f, CreateDate(f)) ELSE Null,
     STATUS |-> prior,
     ERROR_MESSAGE |-> IF prior = "SUCCESS" THEN <<>> ELSE <<1>>,
     IS_LATEST_VERSION |-> "N"]

RECURSIVE PriorTable(_, _)
PriorTable(fs, prior) ==
    IF fs = {} THEN <<>>
    ELSE LET f == CHOOSE x \in fs : \A y \in fs : x >= y
             rest == PriorTable(fs \ {f}, prior)
         IN IF prior[f] = "none" THEN rest ELSE rest \o <<PriorRow(f, prior[f])>>

\* both instances have counted the files of the claim; each is about to record
\* one file of it.  The claim's row carries the status of the earlier cycle.
InitRace ==
    /\ dms_claims = [c \in Claims |-> [UPDATE_DATE |-> IF c = RaceClaim THEN 1 ELSE 0]]
    /\ \E prior \in [RaceFiles -> {"none", "SUCCESS", "FAILED"}] :
          LET had == {f \in RaceFiles : prior[f] # "none"}
              good == Cardinality({f \in RaceFiles : prior[f] = "SUCCESS"})
          IN /\ pdf = PriorTable(RaceFiles, prior)
             /\ claim_status = (RaceClaim :>
                    [LABOUR_AMOUNT_DMS |-> 1,
                     LAST_DMS_UPDATE_DATE |-> 1,
                     ATTACHMENT_STATUS |-> AttachmentStatusOf(good, Cardinality(had)),
                     TOTAL_FILES_COUNT |-> Cardinality(RaceFiles),
                     DOWNLOADED_FILES_COUNT |-> good,
                     AUDIT_STATUS |-> "NULL"])
    /\ pc = "download"
    /\ region_id = 1
    /\ status_id = 1
    /\ claim_ids = <<RaceClaim>>
    /\ idx = 1
    /\ all_files = <<>>
    /\ cycles = 1
    /\ upstream_files = {}
    /\ matching_results = <<>>
    /\ match_args = <<>>
    /\ match_out = <<>>
    /\ parallel_enabled = FALSE
    /\ db_failed = {}
    /\ matcher = [pc |-> "idle", claim_ids |-> <<>>, idx |-> 1, matching_results |-> <<>>]
    /\ claim_last_modified = [f \in {pdf[i].FILE_ID : i \in DOMAIN pdf} |-> 1]
    /\ sequential = <<>>
    /\ writers \in [RaceFiles -> [pc : {"merge"}, status : {"SUCCESS", "FAILED"},
                                   total_files : {Null}, success_count : {Null}]]

\* the MERGE of the call for file f, committed
RaceMerge(f) ==
    /\ writers[f].pc = "merge"
    /\ pdf' = IF writers[f].status = "SUCCESS"
              THEN log_download_status(claim_status, pdf, f, RaceClaim,
                       LocalPath(RaceClaim, f, CreateDate(f)), "SUCCESS", <<>>).pdf
              ELSE log_download_status(claim_status, pdf, f, RaceClaim,
                       NA, "FAILED", <<1>>).pdf
    /\ writers' = [writers EXCEPT ![f].pc = "read"]
    /\ UNCHANGED <<dms_claims, claim_status, pc, region_id, status_id, claim_ids,
                   idx, all_files, cycles>>
    /\ UNCHANGED <<upstream_files, matching_results, match_args, match_out,
                   parallel_enabled, db_failed, matcher, claim_last_modified, sequential>>

\* the stats_query of the call for file f
RaceRead(f) ==
    /\ writers[f].pc = "read"
    /\ LET stats == attachment_stats(claim_status, pdf, RaceClaim) IN
          writers' = [writers EXCEPT ![f].pc = "write",
                                     ![f].total_files = stats.total_files,
                                     ![f].success_count = stats.success_count]
    /\ UNCHANGED <<dms_claims, claim_status, pdf, pc, region_id, status_id, claim_ids,
                   idx, all_files, cycles>>
    /\ UNCHANGED <<upstream_files, matching_results, match_args, match_out,
                   parallel_enabled, db_failed, matcher, claim_last_modified, sequential>>

\* the UPDATE of the call for file f, committed: the call returns
RaceWrite(f) ==
    /\ writers[f].pc = "write"
    /\ claim_status' = write_attachment_status(claim_status, RaceClaim,
                           writers[f].success_count, writers[f].total_files)
    /\ writers' = [writers EXCEPT ![f].pc = "done"]
    /\ UNCHANGED <<dms_claims, pdf, pc, region_id, status_id, claim_ids,
                   idx, all_files, cycles>>
    /\ UNCHANGED <<upstream_files, matching_results, match_args, match_out,
                   parallel_enabled, db_failed, matcher, claim_last_modified, sequential>>

NextRace ==
    \/ \E f \in RaceFiles : RaceMerge(f)
    \/ \E f \in RaceFiles : RaceRead(f)
    \/ \E f \in RaceFiles : RaceWrite(f)

SpecRace == InitRace /\ [][NextRace]_vars

\* ----- download cycles that stop before their end --------------------------
\* The cycle commits statement by statement: the upserts of
\* get_claims_needing_download, each mark_old_files_obsolete, each
\* update_claim_file_count, each MERGE and each UPDATE of the attachment status
\* are transactions of their own.  A cycle that stops (the process dies, or an
\* error ends get_new_files_to_download with an empty result) leaves what was
\* committed so far; the next run starts from there.  pc is "interrupted" after
\* such a cycle and "idle" after a cycle that ran every statement.

\* cycles enough for a completed cycle, a stopped one and a completed one again
CrashCycles == MaxCycles + 1

\* SELECT LAST_DMS_UPDATE_DATE FROM CLAIM_STATUS WHERE CLAIM_ID = :claim_id
get_claim_last_modified_date(cs, claim_id) ==
    IF claim_id \in DOMAIN cs THEN cs[claim_id].LAST_DMS_UPDATE_DATE ELSE Null

\* the CLAIM_LAST_MODIFIED column after the MERGEs of the first n rows of
\* files_df: both branches of the MERGE store the value log_download_status read
StampAll(clm, cs, files_df, n) ==
    LET recorded == {files_df[i].FILE_ID : i \in 1..n}
    IN [f \in DOMAIN clm \cup recorded |->
            IF f \in recorded
            THEN get_claim_last_modified_date(cs, BillId(f))
            ELSE clm[f]]

RECURSIVE RecordUpTo(_, _, _, _, _, _)
\* the download loop over the first n rows of files_df; for the files of lost
\* the MERGE is committed and update_attachment_status changes nothing (it
\* fails and swallows its error, lines 671-681, or the process dies before it)
RecordUpTo(cs, pdf_t, files_df, ok, lost, n) ==
    IF n = 0 \/ files_df = <<>> THEN [cs |-> cs, pdf |-> pdf_t]
    ELSE LET row == Head(files_df)
             r == IF row.FILE_ID \in ok
                  THEN log_download_status(cs, pdf_t, row.FILE_ID, row.CLAIM_ID,
                           LocalPath(row.CLAIM_ID, row.FILE_ID, row.CREATE_DATE),
                           "SUCCESS", <<>>)
                  ELSE log_download_status(cs, pdf_t, row.FILE_ID, row.CLAIM_ID,
                           NA, "FAILED", <<1, 2>>)
         IN RecordUpTo(IF row.FILE_ID \in lost THEN cs ELSE r.cs, r.pdf,
                       Tail(files_df), ok, lost, n - 1)

\* the upstream of these specifications: the amounts never change and
\* TC_FILE_UPLOAD_INFO holds every file of every claim
CrashAmounts == [c \in Claims |-> 1]
FilesOfClaims(ids) == {f \in Files : BillId(f) \in Range(ids)}

\* a cycle that runs every statement; the files of ok are downloaded
FullCycle(upd, ok) ==
    /\ pc \in {"idle", "interrupted"}
    /\ cycles < CrashCycles
    /\ cycles' = cycles + 1
    /\ \A c \in Claims : upd[c] >= dms_claims[c].UPDATE_DATE
    /\ dms_claims' = [c \in Claims |-> [UPDATE_DATE |-> upd[c]]]
    /\ \E r \in {get_claims_needing_download(claim_status, dms_claims', CrashAmounts, 1, 1)} :
       \E marked \in {MarkAll(pdf, r.needs)} :
       \E files_df \in {QueryAll(FilesOfClaims(r.needs), r.needs, 1)} :
       \E counted \in {CountAll(r.cs, FileCounts(files_df))} :
       \E done \in {RecordAll(counted, marked, files_df, ok)} :
          /\ ok \subseteq FilesOfClaims(r.needs)
          /\ claim_status' = done.cs
          /\ pdf' = done.pdf
          /\ claim_last_modified' =
                 StampAll(claim_last_modified, counted, files_df, Len(files_df))
    /\ pc' = "idle"
    /\ UNCHANGED <<region_id, status_id, claim_ids, idx, all_files>>
    /\ UNCHANGED <<upstream_files, matching_results, match_args, match_out,
                   parallel_enabled, db_failed, matcher, writers, sequential>>

\* a cycle that stops after the upserts and the marking of the first k
\* selected claims: k = 0 when the resolver's lookups fail (lines 424-437),
\* every selected claim when the files_query fails, any k when the process dies
StoppedCycle(upd, k) ==
    /\ pc \in {"idle", "interrupted"}
    /\ cycles < CrashCycles
    /\ cycles' = cycles + 1
    /\ \A c \in Claims : upd[c] >= dms_claims[c].UPDATE_DATE
    /\ dms_claims' = [c \in Claims |-> [UPDATE_DATE |-> upd[c]]]
    /\ \E r \in {get_claims_needing_download(claim_status, dms_claims', CrashAmounts, 1, 1)} :
          /\ r.needs # <<>>
          /\ k <= Len(r.needs)
          /\ claim_status' = r.cs
          /\ pdf' = MarkAll(pdf, SubSeq(r.needs, 1, k))
    /\ pc' = "interrupted"
    /\ UNCHANGED <<region_id, status_id, claim_ids, idx, all_files>>
    /\ UNCHANGED <<upstream_files, matching_results, match_args, match_out,
                   parallel_enabled, db_failed, matcher, writers, claim_last_modified, sequential>>

\* a cycle in which log_download_status stops between its MERGE and the
\* recomputation for the files of lost: the cycle records its first n files,
\* and when it does not reach the end of the loop (the process died) the last
\* file it recorded is one of lost
LossyCycle(upd, ok) ==
    /\ pc \in {"idle", "interrupted"}
    /\ cycles < CrashCycles
    /\ cycles' = cycles + 1
    /\ \A c \in Claims : upd[c] >= dms_claims[c].UPDATE_DATE
    /\ dms_claims' = [c \in Claims |-> [UPDATE_DATE |-> upd[c]]]
    /\ \E r \in {get_claims_needing_download(claim_status, dms_claims', CrashAmounts, 1, 1)} :
       \E marked \in {MarkAll(pdf, r.needs)} :
       \E files_df \in {QueryAll(FilesOfClaims(r.needs), r.needs, 1)} :
       \E counted \in {CountAll(r.cs, FileCounts(files_df))} :
       \E n \in 1..Len(files_df) :
       \E lost \in SUBSET {files_df[i].FILE_ID : i \in 1..n} :
       \E done \in {RecordUpTo(counted, marked, files_df, ok, lost, n)} :
          /\ ok \subseteq FilesOfClaims(r.needs)
          /\ lost # {}
          /\ n < Len(files_df) => files_df[n].FILE_ID \in lost
          /\ claim_status' = done.cs
          /\ pdf' = done.pdf
          /\ claim_last_modified' = StampAll(claim_last_modified, counted, files_df, n)
    /\ pc' = "interrupted"
    /\ UNCHANGED <<region_id, status_id, claim_ids, idx, all_files>>
    /\ UNCHANGED <<upstream_files, matching_results, match_args, match_out,
                   parallel_enabled, db_failed, matcher, writers, sequential>>

\* the upstream timestamps a cycle can read
Updates == [Claims -> 0..MaxTs]

NextStop ==
    \/ \E upd \in Updates, ok \in SUBSET Files : FullCycle(upd, ok)
    \/ \E upd \in Updates, k \in 0..Cardinality(Claims) : StoppedCycle(upd, k)

SpecStop == Init /\ [][NextStop]_vars

NextLoss ==
    \/ \E upd \in Updates, ok \in SUBSET Files : FullCycle(upd, ok)
    \/ \E upd \in Updates, ok \in SUBSET Files : LossyCycle(upd, ok)

SpecLoss == Init /\ [][NextLoss]_vars

\* ----- the download job repeated without end -------------------------------
\* The scheduler starts run_download_process every periodicity_hours for as
\* long as the service runs.  The upstream keeps every file of every claim.

\* get_new_files_to_download run to its end: reconciliation, marking,
\* enumeration and file counts; files_df goes to the download loop
EnumerateAll(upd) ==
    /\ pc = "idle"
    /\ \A c \in Claims : upd[c] >= dms_claims[c].UPDATE_DATE
    /\ dms_claims' = [c \in Claims |-> [UPDATE_DATE |-> upd[c]]]
    /\ \E r \in {get_claims_needing_download(claim_status, dms_claims', CrashAmounts, 1, 1)} :
       \E files_df \in {QueryAll(FilesOfClaims(r.needs), r.needs, 1)} :
          /\ pdf' = MarkAll(pdf, r.needs)
          /\ claim_status' = CountAll(r.cs, FileCounts(files_df))
          /\ all_files' = files_df
          /\ claim_ids' = IF files_df = <<>> THEN <<>> ELSE r.needs
          /\ pc' = IF files_df = <<>> THEN "idle" ELSE "download"
    /\ UNCHANGED <<region_id, status_id, idx, cycles>>
    /\ UNCHANGED other_vars

\* the scheduler starts the download job again and again; inside a cycle the
\* download loop records one outcome per step until the loop is exhausted
NextLive ==
    \/ \E upd \in Updates : EnumerateAll(upd)
    \/ \E ok \in BOOLEAN, error \in ErrorMessages : DownloadStep(ok, error)
    \/ DownloadDone

\* the BlockingScheduler fires the interval job again and again, and a
\* running download loop always takes its next step
SpecLive == Init /\ [][NextLive]_vars /\ WF_vars(NextLive)

\* ----- the parallel download cycle (main.run_download_process_parallel) -----
\* writers holds the futures of the cycle: queued, running (a worker thread is
\* inside download_single_file), finished (the future is done), logging (the
\* main thread is inside log_download_status for it), recorded.

\* max_workers of the ThreadPoolExecutor (4 in the code, scaled down)
max_workers == 2

InitPar ==
    /\ dms_claims = [c \in Claims |-> [UPDATE_DATE |-> 0]]
    /\ claim_status = <<>>
    /\ pdf = <<>>
    /\ pc = "idle"
    /\ region_id = Null
    /\ status_id = Null
    /\ claim_ids = <<>>
    /\ idx = 1
    /\ all_files = <<>>
    /\ cycles = 0
    /\ upstream_files = {}
    /\ matching_results = <<>>
    /\ match_args = <<>>
    /\ match_out = <<>>
    /\ parallel_enabled = TRUE
    /\ db_failed = {}
    /\ InitAux

\* the FILE_IDs of files_df
FileIds(files_df) == {files_df[i].FILE_ID : i \in DOMAIN files_df}

\* the row of files_df a future was submitted with
RowOf(files_df, f) == files_df[CHOOSE i \in DOMAIN files_df : files_df[i].FILE_ID = f]

\* variant: every worker thread records the outcome of its own download
MainThreadFree_mut(w) == TRUE

\* the loop "for future in as_completed(future_to_file)" runs in the main
\* thread: it takes the next future when the body for the previous one,
\* log_download_status included, has returned
MainThreadFree(w) == \A f \in DOMAIN w : w[f].pc # "logging"

\* lines 346-351: every row of files_df is submitted to the executor; ok are
\* the files whose download will succeed
ParSubmit(ok) ==
    /\ pc = "download"
    /\ writers = <<>>
    /\ ok \subseteq FileIds(all_files)
    /\ writers' = [f \in FileIds(all_files) |->
                      [pc |-> "queued",
                       status |-> IF f \in ok THEN "SUCCESS" ELSE "FAILED",
                       total_files |-> Null, success_count |-> Null]]
    /\ sequential' = RecordAll(claim_status, pdf, all_files, ok)
    /\ UNCHANGED <<dms_claims, claim_status, pdf, pc, region_id, status_id, claim_ids,
                   idx, all_files, cycles>>
    /\ UNCHANGED <<upstream_files, matching_results, match_args, match_out,
                   parallel_enabled, db_failed, matcher, claim_last_modified>>

\* a free worker thread takes the oldest queued task
ParStart(f) ==
    /\ f \in DOMAIN writers
    /\ writers[f].pc = "queued"
    /\ \A g \in DOMAIN writers : writers[g].pc = "queued" => g >= f
    /\ Cardinality({g \in DOMAIN writers : writers[g].pc = "running"}) < max_workers
    /\ writers' = [writers EXCEPT ![f].pc = "running"]
    /\ UNCHANGED <<dms_claims, claim_status, pdf, pc, region_id, status_id, claim_ids,
                   idx, all_files, cycles>>
    /\ UNCHANGED <<upstream_files, matching_results, match_args, match_out,
                   parallel_enabled, db_failed, matcher, claim_last_modified, sequential>>

\* download_single_file returns (lines 199-211): the future is done
ParFinish(f) ==
    /\ f \in DOMAIN writers
    /\ writers[f].pc = "running"
    /\ writers' = [writers EXCEPT ![f].pc = "finished"]
    /\ UNCHANGED <<dms_claims, claim_status, pdf, pc, region_id, status_id, claim_ids,
                   idx, all_files, cycles>>
    /\ UNCHANGED <<upstream_files, matching_results, match_args, match_out,
                   parallel_enabled, db_failed, matcher, claim_last_modified, sequential>>

\* as_completed yields a finished future and the main thread calls
\* log_download_status with its result (lines 354-383)
ParTake(f) ==
    /\ f \in DOMAIN writers
    /\ writers[f].pc = "finished"
    /\ MainThreadFree(writers)
    /\ writers' = [writers EXCEPT ![f].pc = "logging"]
    /\ UNCHANGED <<dms_claims, claim_status, pdf, pc, region_id, status_id, claim_ids,
                   idx, all_files, cycles>>
    /\ UNCHANGED <<upstream_files, matching_results, match_args, match_out,
                   parallel_enabled, db_failed, matcher, claim_last_modified, sequential>>

\* log_download_status commits and returns to the loop; the future keeps
\* the counts the stats_query of the call has read
ParLog(f) ==
    /\ f \in DOMAIN writers
    /\ writers[f].pc = "logging"
    /\ LET row == RowOf(all_files, f)
           r == IF writers[f].status = "SUCCESS"
                THEN log_download_status(claim_status, pdf, row.FILE_ID, row.CLAIM_ID,
                         LocalPath(row.CLAIM_ID, row.FILE_ID, row.CREATE_DATE),
                         "SUCCESS", <<>>)
                ELSE log_download_status(claim_status, pdf, row.FILE_ID, row.CLAIM_ID,
                         NA, "FAILED", <<1, 2>>)
           stats == attachment_stats(claim_status, r.pdf, row.CLAIM_ID)
       IN /\ pdf' = r.pdf
          /\ claim_status' = r.cs
          /\ writers' = [writers EXCEPT ![f].pc = "recorded",
                                        ![f].total_files = stats.total_files,
                                        ![f].success_count = stats.success_count]
    /\ UNCHANGED <<dms_claims, pc, region_id, status_id, claim_ids,
                   idx, all_files, cycles>>
    /\ UNCHANGED <<upstream_files, matching_results, match_args, match_out,
                   parallel_enabled, db_failed, matcher, claim_last_modified, sequential>>

\* every future has been recorded: the executor shuts down and the cycle ends
ParDone ==
    /\ pc = "download"
    /\ writers # <<>>
    /\ \A f \in DOMAIN writers : writers[f].pc = "recorded"
    /\ EndCycle
    /\ writers' = <<>>
    /\ sequential' = <<>>
    /\ UNCHANGED <<dms_claims, claim_status, pdf, cycles>>
    /\ UNCHANGED <<upstream_files, matching_results, match_args, match_out,
                   parallel_enabled, db_failed, matcher, claim_last_modified>>

NextPar ==
    \/ \E upd \in Updates : EnumerateAll(upd)
    \/ \E ok \in SUBSET Files : ParSubmit(ok)
    \/ \E f \in Files : ParStart(f)
    \/ \E f \in Files : ParFinish(f)
    \/ \E f \in Files : ParTake(f)
    \/ \E f \in Files : ParLog(f)
    \/ ParDone

SpecPar == InitPar /\ [][NextPar]_vars

\* ----- files that the upstream attaches to another claim --------------------
\* BILL_ID of a row of TC_FILE_UPLOAD_INFO is not fixed: the files_query can
\* return a FILE_ID under another claim than the one its record was created
\* with.

\* the file whose BILL_ID changes upstream
MovedFile == 3

\* one iteration of the download loop (main.py lines 264-298) for a row of
\* files_df whose CLAIM_ID column holds claim_id
DownloadStepFor(claim_id, ok, error) ==
    /\ pc = "download"
    /\ idx <= Len(all_files)
    /\ all_files[idx].FILE_ID # MovedFile => claim_id = all_files[idx].CLAIM_ID
    /\ LET row == all_files[idx]
           r == IF ok
                THEN log_download_status(claim_status, pdf, row.FILE_ID, claim_id,
                         LocalPath(claim_id, row.FILE_ID, row.CREATE_DATE),
                         "SUCCESS", <<>>)
                ELSE log_download_status(claim_status, pdf, row.FILE_ID, claim_id,
                         NA, "FAILED", error)
       IN /\ pdf' = r.pdf
          /\ claim_status' = r.cs
    /\ idx' = idx + 1
    /\ UNCHANGED <<dms_claims, pc, region_id, status_id, claim_ids,
                   all_files, cycles>>
    /\ UNCHANGED other_vars

NextMove ==
    \/ \E upd \in Updates : EnumerateAll(upd)
    \/ \E claim_id \in Claims, ok \in BOOLEAN, error \in ErrorMessages :
          DownloadStepFor(claim_id, ok, error)
    \/ DownloadDone

SpecMove == Init /\ [][NextMove]_vars

\* ----- processing passes repeated without end ------------------------------

\* max_claims_per_batch set to its smallest value in the configuration
LeastBatch == 1

\* the claim whose files stay on the disk
KeptClaim == 2

\* process_claims_batch_pdfs(max_claims = limit), lines 482-491
ProcessReadLimit(limit) ==
    /\ pc = "idle"
    /\ LET claims_df == get_claims_ready_for_processing(claim_status) IN
       IF claims_df = <<>>
       THEN UNCHANGED <<pc, claim_ids, idx>>
       ELSE /\ claim_ids' = Head_n(claims_df, limit)
            /\ idx' = 1
            /\ pc' = "processing"
    /\ UNCHANGED <<dms_claims, claim_status, pdf, region_id, status_id, all_files, cycles>>
    /\ UNCHANGED other_vars

\* the passes of the processing job; the files of KeptClaim are found on the
\* disk whenever a pass looks for them, the files of other claims may be gone
ProcessPass ==
    \/ ProcessReadLimit(LeastBatch)
    \/ \E existing \in SUBSET {LocalPath(BillId(f), f, CreateDate(f)) : f \in Files} :
          /\ ProcessStep(existing)
          /\ claim_ids[idx] = KeptClaim => existing = get_claim_pdf_files(pdf, KeptClaim)
    \/ ProcessDone

\* the passes of the matching job
MatchPass ==
    \/ \E part \in [AuditReady -> {0, 1}], el \in [AuditReady -> Amounts],
            ep \in [AuditReady -> {0, 1}] : MatchRead(part, el, ep)
    \/ MatchStep
    \/ MatchDone

\* download cycles, and the processing and matching jobs at every interval
NextProc ==
    \/ \E amt \in {[c \in Claims |-> 1]} :
          \E upd \in {u \in [Claims -> 0..MaxTs] :
                         \A c \in Claims : u[c] >= dms_claims[c].UPDATE_DATE} :
          \E files \in {{f \in NeededFiles(amt, upd) : BillId(f) \in S} :
                            S \in SUBSET Claims} :
          \E ok \in SUBSET files :
              DownloadCycle(amt, upd, files, ok)
    \/ ProcessPass
    \/ MatchPass

\* the interval triggers of pdf_processing_job and audit_matching_job fire
\* again and again, neither job keeps the other from running, and a pass that
\* has started runs to its end
SpecProc == Init /\ [][NextProc]_vars /\ SF_vars(ProcessPass) /\ SF_vars(MatchPass)

\* ----- properties ---------------------------------------------------------

\* the number of a claim's FileRecords with is_latest_version true and status SUCCESS
LatestSuccess(pdf_t, c) ==
    Len(SelectSeq(pdf_t, LAMBDA r : /\ r.CLAIM_ID = c
                                    /\ r.IS_LATEST_VERSION = "Y"
                                    /\ r.STATUS = "SUCCESS"))

\* the rows of the tracking table that belong to a file id
RowsOf(pdf_t, f) == {i \in DOMAIN pdf_t : pdf_t[i].FILE_ID = f}

\* a step of the download loop that records one outcome
RecordStep == pc = "download" /\ idx' = idx + 1

\* the files and the claims with an outcome recorded so far in the running cycle
RecordedFiles == IF pc = "download" THEN {all_files[j].FILE_ID : j \in 1..(idx - 1)} ELSE {}
RecordedClaims == IF pc = "download" THEN {all_files[j].CLAIM_ID : j \in 1..(idx - 1)} ELSE {}

\* the number of document records the running pass enumerated for a claim
Enumerated(c) == Cardinality({j \in DOMAIN all_files : all_files[j].CLAIM_ID = c})

\* C1: while outcomes are being recorded for a claim (its total_files_count
\* fixed by the pass), the stored attachment_status is COMPLETE if and only if
\* the number of its latest-version SUCCESS records equals total_files_count
\* and total_files_count > 0.
C1_Completeness ==
    \A c \in RecordedClaims :
        /\ c \in DOMAIN claim_status
        /\ claim_status[c].ATTACHMENT_STATUS = "COMPLETE"
             <=> /\ LatestSuccess(pdf, c) = claim_status[c].TOTAL_FILES_COUNT
                 /\ claim_status[c].TOTAL_FILES_COUNT > 0

\* a claim with two files has both recorded SUCCESS and is COMPLETE
C1_Witness ==
    \E c \in RecordedClaims :
        /\ claim_status[c].TOTAL_FILES_COUNT = 2
        /\ LatestSuccess(pdf, c) = 2
        /\ claim_status[c].ATTACHMENT_STATUS = "COMPLETE"

\* C2: immediately after each record_outcome for a claim, downloaded_files_count
\* is the number s of its latest-version SUCCESS records, and attachment_status
\* is PENDING iff s = 0, COMPLETE iff s = total_files_count, PARTIAL otherwise;
\* with total_files_count = 2, two SUCCESS outcomes give COMPLETE with
\* downloaded_files_count = 2 and one SUCCESS plus one FAILED give PARTIAL.
C2_Recompute ==
    /\ [][RecordStep =>
            LET c == all_files[idx].CLAIM_ID
                s == LatestSuccess(pdf', c)
                row == claim_status'[c]
            IN /\ row.DOWNLOADED_FILES_COUNT = s
               /\ row.ATTACHMENT_STATUS = "PENDING" <=> s = 0
               /\ row.ATTACHMENT_STATUS = "COMPLETE" <=> s = row.TOTAL_FILES_COUNT
               /\ row.ATTACHMENT_STATUS = "PARTIAL" <=> (s # 0 /\ s # row.TOTAL_FILES_COUNT)]_vars
    /\ [](\A c \in RecordedClaims :
            LET fs == {all_files[j].FILE_ID : j \in {k \in 1..(idx - 1) : all_files[k].CLAIM_ID = c}}
                st == {pdf[i].STATUS : i \in {k \in DOMAIN pdf : pdf[k].FILE_ID \in fs}}
            IN (claim_status[c].TOTAL_FILES_COUNT = 2 /\ Cardinality(fs) = 2) =>
                 /\ st = {"SUCCESS"} =>
                      /\ claim_status[c].ATTACHMENT_STATUS = "COMPLETE"
                      /\ claim_status[c].DOWNLOADED_FILES_COUNT = 2
                 /\ st = {"SUCCESS", "FAILED"} =>
                      claim_status[c].ATTACHMENT_STATUS = "PARTIAL")

\* a claim with two files has one recorded SUCCESS, the other FAILED, and is PARTIAL
C2_Witness ==
    \E c \in RecordedClaims :
        /\ claim_status[c].TOTAL_FILES_COUNT = 2
        /\ Cardinality({j \in 1..(idx - 1) : all_files[j].CLAIM_ID = c}) = 2
        /\ \E i \in DOMAIN pdf : pdf[i].CLAIM_ID = c /\ pdf[i].STATUS = "FAILED"
        /\ claim_status[c].DOWNLOADED_FILES_COUNT = 1
        /\ claim_status[c].ATTACHMENT_STATUS = "PARTIAL"

\* C3: record_outcome called twice with the same (file_id, claim_id, SUCCESS,
\* local_path), on any store the download loop meets, leaves exactly one
\* FileRecord for the file_id, equal to the one after the first call, and the
\* claim's attachment_status and downloaded_files_count as after the first call.
C3_Idempotent ==
    pc = "download" => \A f \in Files :
        LET c == BillId(f)
            path == LocalPath(c, f, CreateDate(f))
            once == log_download_status(claim_status, pdf, f, c, path, "SUCCESS", <<>>)
            twice == log_download_status(once.cs, once.pdf, f, c, path, "SUCCESS", <<>>)
        IN /\ Cardinality(RowsOf(twice.pdf, f)) = 1
           /\ \A i \in RowsOf(twice.pdf, f) :
                /\ i \in RowsOf(once.pdf, f)
                /\ twice.pdf[i].STATUS = once.pdf[i].STATUS
                /\ twice.pdf[i].LOCAL_FILE_PATH = once.pdf[i].LOCAL_FILE_PATH
                /\ twice.pdf[i].LOCAL_FILE_PATH = path
                /\ twice.pdf[i].IS_LATEST_VERSION = once.pdf[i].IS_LATEST_VERSION
           /\ c \in DOMAIN claim_status =>
                /\ twice.cs[c].ATTACHMENT_STATUS = once.cs[c].ATTACHMENT_STATUS
                /\ twice.cs[c].DOWNLOADED_FILES_COUNT = once.cs[c].DOWNLOADED_FILES_COUNT

\* the download loop has just recorded SUCCESS with its path for a file
C3_Witness ==
    /\ pc = "download"
    /\ idx > 1
    /\ \E i \in RowsOf(pdf, all_files[idx - 1].FILE_ID) :
          /\ pdf[i].STATUS = "SUCCESS"
          /\ pdf[i].LOCAL_FILE_PATH # Null
          /\ pdf[i].IS_LATEST_VERSION = "Y"

\* C4: a record_outcome never turns a stored local_path from non-null to null,
\* and a FAILED outcome leaves the previously stored path as it was.
C4_PathKept ==
    [][RecordStep =>
         \A i \in DOMAIN pdf :
            pdf[i].LOCAL_FILE_PATH # Null =>
               /\ RowsOf(pdf', pdf[i].FILE_ID) # {}
               /\ \A j \in RowsOf(pdf', pdf[i].FILE_ID) :
                     /\ pdf'[j].LOCAL_FILE_PATH # Null
                     /\ pdf'[j].STATUS = "FAILED" =>
                           pdf'[j].LOCAL_FILE_PATH = pdf[i].LOCAL_FILE_PATH]_vars

\* a file recorded FAILED in the running cycle still has its earlier path
C4_Witness ==
    \E i \in DOMAIN pdf :
        /\ pdf[i].FILE_ID \in RecordedFiles
        /\ pdf[i].STATUS = "FAILED"
        /\ pdf[i].LOCAL_FILE_PATH # Null

\* C5: once the resolver has marked the claims of its batch, every FileRecord
\* of such a claim is not-latest unless an outcome was recorded for its file
\* in this cycle, and a record goes from not-latest to latest only in the
\* record_outcome step for its file_id.
C5_Staleness ==
    /\ [](pc \in {"query", "count", "download"} =>
            \A i \in DOMAIN pdf :
               (pdf[i].CLAIM_ID \in Range(claim_ids) /\ pdf[i].IS_LATEST_VERSION = "Y")
                  => pdf[i].FILE_ID \in RecordedFiles)
    /\ [][\A i \in DOMAIN pdf :
            (/\ pdf[i].IS_LATEST_VERSION = "N"
             /\ \E j \in RowsOf(pdf', pdf[i].FILE_ID) : pdf'[j].IS_LATEST_VERSION = "Y")
               => (RecordStep /\ all_files[idx].FILE_ID = pdf[i].FILE_ID)]_vars

\* enumeration runs for a claim that was COMPLETE (so selected because its
\* upstream timestamp advanced) and whose earlier SUCCESS record is now not-latest
C5_Witness ==
    /\ pc = "query"
    /\ \E i \in DOMAIN pdf :
          /\ pdf[i].CLAIM_ID \in Range(claim_ids)
          /\ claim_status[pdf[i].CLAIM_ID].ATTACHMENT_STATUS = "COMPLETE"
          /\ pdf[i].STATUS = "SUCCESS"
          /\ pdf[i].IS_LATEST_VERSION = "N"

\* the step in which the reconciler runs with both lookup codes resolved
ReconcileStep ==
    pc = "idle" /\ pc' = "resolver" /\ ~Falsy(region_id') /\ ~Falsy(status_id')

\* C6: get_claims_needing_download returns exactly the upstream claims that
\* have no local row, or whose upstream update timestamp is greater than the
\* stored LAST_DMS_UPDATE_DATE, or whose attachment_status is not COMPLETE.
C6_Selection ==
    [][ReconcileStep =>
         Range(claim_ids') =
            {c \in Claims :
               /\ dms_claims'[c].UPDATE_DATE > 0
               /\ \/ c \notin DOMAIN claim_status
                  \/ dms_claims'[c].UPDATE_DATE > claim_status[c].LAST_DMS_UPDATE_DATE
                  \/ claim_status[c].ATTACHMENT_STATUS # "COMPLETE"}]_vars

\* the reconciler has returned a selection that leaves out an upstream claim
\* and contains another one that is locally COMPLETE
C6_Witness ==
    /\ pc = "resolver"
    /\ ~Falsy(region_id) /\ ~Falsy(status_id)
    /\ \E c \in Claims : dms_claims[c].UPDATE_DATE > 0 /\ c \notin Range(claim_ids)
    /\ \E c \in Range(claim_ids) : claim_status[c].ATTACHMENT_STATUS = "COMPLETE"

\* C7: after a reconciliation pass that resolves its lookup codes and reads a
\* non-empty upstream snapshot, every claim of the snapshot, selected or not,
\* has a local row whose mirrored fields equal the upstream values.
C7_UpsertAll ==
    [][\A amt \in [Claims -> Amounts] :
          LET upd == [c \in Claims |-> dms_claims'[c].UPDATE_DATE] IN
          (ReconcileStep /\ Reconcile(region_id', status_id', amt, upd)) =>
             \A c \in Claims :
                upd[c] > 0 =>
                   /\ c \in DOMAIN claim_status'
                   /\ claim_status'[c].LAST_DMS_UPDATE_DATE = upd[c]
                   /\ claim_status'[c].LABOUR_AMOUNT_DMS = amt[c]]_vars

\* the reconciler has returned without selecting an upstream claim whose local
\* row is COMPLETE, in the second cycle
C7_Witness ==
    /\ pc = "resolver"
    /\ cycles = 2
    /\ ~Falsy(region_id) /\ ~Falsy(status_id)
    /\ \E c \in DOMAIN claim_status :
          /\ dms_claims[c].UPDATE_DATE > 0
          /\ c \notin Range(claim_ids)
          /\ claim_status[c].ATTACHMENT_STATUS = "COMPLETE"

\* C8: when the region id or the status id is not resolved, the reconciler
\* returns an empty result and the cycle ends without any change to the
\* local store.
C8_LookupFailure ==
    /\ [][(pc = "idle" /\ pc' = "resolver" /\ (Falsy(region_id') \/ Falsy(status_id')))
            => (claim_ids' = <<>> /\ UNCHANGED <<claim_status, pdf>>)]_vars
    /\ [][(pc = "resolver" /\ (Falsy(region_id) \/ Falsy(status_id)))
            => (pc' = "idle" /\ UNCHANGED <<claim_status, pdf>>)]_vars

\* a lookup has failed while a claim of the local store is not COMPLETE and
\* has a latest record (with the codes resolved it would be selected again)
C8_Witness ==
    /\ pc = "resolver"
    /\ Falsy(region_id) \/ Falsy(status_id)
    /\ \E i \in DOMAIN pdf :
          /\ pdf[i].IS_LATEST_VERSION = "Y"
          /\ pdf[i].CLAIM_ID \in DOMAIN claim_status
          /\ claim_status[pdf[i].CLAIM_ID].ATTACHMENT_STATUS # "COMPLETE"

\* C9: every enumeration query and every update_claim_file_count of a pass
\* runs after all claims of the batch have been marked: at each such step no
\* FileRecord of a claim of the batch is latest.
C9_MarkBeforeCount ==
    [][((pc = "query" \/ pc = "count") /\ idx' > idx) =>
         \A i \in DOMAIN pdf :
            pdf[i].CLAIM_ID \in Range(claim_ids) => pdf[i].IS_LATEST_VERSION = "N"]_vars

\* a file count has been stored in a pass over two claims that both had records
C9_Witness ==
    /\ pc = "count"
    /\ idx > 1
    /\ Len(claim_ids) = 2
    /\ \A c \in Range(claim_ids) : \E i \in DOMAIN pdf : pdf[i].CLAIM_ID = c

\* C10 as stated: when the resolver hands its files to the download loop,
\* every claim of the batch has total_files_count equal to the number of
\* document records enumerated for it (a count never stored is read as zero).
C10_CountReplaced ==
    pc = "download" =>
        \A c \in Range(claim_ids) :
            \/ claim_status[c].TOTAL_FILES_COUNT = Enumerated(c)
            \/ Enumerated(c) = 0 /\ claim_status[c].TOTAL_FILES_COUNT = Null

\* C11: for any list of N distinct claim ids (N above the batch ceiling
\* included), the rows the resolver has collected when its chunked loop ends
\* are the rows one query over all N ids returns against the same upstream:
\* none is lost and none is duplicated.
C11_Chunking ==
    (pc = "query" /\ idx > Len(claim_ids)) =>
        /\ Range(all_files) = Range(FilesQuery(upstream_files, claim_ids))
        /\ Len(all_files) = Len(FilesQuery(upstream_files, claim_ids))
        /\ Cardinality(Range(all_files)) = Len(all_files)

\* the loop has ended after more than one chunk, with rows of two claims
C11_Witness ==
    /\ pc = "query"
    /\ idx > Len(claim_ids)
    /\ Len(claim_ids) > batch_size
    /\ Cardinality({all_files[i].CLAIM_ID : i \in DOMAIN all_files}) = 2
    /\ Len(all_files) = NumFiles

\* the terminal audit outcomes
Terminal == {"COMPLETE", "REJECTED"}

\* the AUDIT_STATUS column of a claim, "NONE" while the claim has no row
AuditOf(cs, c) == IF c \in DOMAIN cs THEN cs[c].AUDIT_STATUS ELSE "NONE"

\* C12: under download cycles, processing passes and matching passes that run
\* one at a time, an AUDIT_STATUS of COMPLETE or REJECTED never changes again
C12_TerminalStable ==
    [][\A c \in Claims :
          AuditOf(claim_status, c) \in Terminal =>
              AuditOf(claim_status', c) = AuditOf(claim_status, c)]_vars

\* an audited claim has been selected again by a later download cycle while
\* another claim is waiting for a matching pass
C12_Witness ==
    \E c, d \in Claims :
        /\ AuditOf(claim_status, c) \in Terminal
        /\ claim_status[c].ATTACHMENT_STATUS # "COMPLETE"
        /\ AuditOf(claim_status, d) = "PENDING"
        /\ pc = "matching"

\* C13: no operation of a download cycle (the upsert, the marking of old
\* files, the file counts, the recording of an outcome and the recomputation
\* of the attachment status) changes the AUDIT_STATUS of a claim that has a row
C13_DownloadKeepsAudit ==
    [][cycles' # cycles =>
          \A c \in DOMAIN claim_status :
              AuditOf(claim_status', c) = AuditOf(claim_status, c)]_vars

\* an audited claim has been downloaded again and one of its files failed
C13_Witness ==
    \E c \in DOMAIN claim_status :
        /\ claim_status[c].AUDIT_STATUS = "COMPLETE"
        /\ \E i \in DOMAIN pdf : /\ pdf[i].CLAIM_ID = c
                                 /\ pdf[i].STATUS = "FAILED"
                                 /\ pdf[i].IS_LATEST_VERSION = "Y"

\* the claims whose attachments are complete and whose audit has not started
\* or is pending
ReadyForProcessing(cs) ==
    {c \in DOMAIN cs : /\ cs[c].ATTACHMENT_STATUS = "COMPLETE"
                        /\ cs[c].AUDIT_STATUS \in {"NULL", "PENDING"}}

\* C14: a processing pass reads exactly the claims whose ATTACHMENT_STATUS is
\* COMPLETE and whose AUDIT_STATUS is NULL or PENDING (up to max_claims of
\* them), and it sets PENDING on such claims only
C14_ProcessingReads ==
    [][/\ (pc = "idle" /\ pc' = "processing") =>
            /\ Range(claim_ids') \subseteq ReadyForProcessing(claim_status)
            /\ Len(claim_ids') = Min(max_claims, Cardinality(ReadyForProcessing(claim_status)))
            /\ Cardinality(Range(claim_ids')) = Len(claim_ids')
       /\ (pc = "processing") =>
            \A c \in Claims :
                AuditOf(claim_status', c) # AuditOf(claim_status, c) =>
                    /\ c \in ReadyForProcessing(claim_status)
                    /\ AuditOf(claim_status', c) = "PENDING"]_vars

\* a pass is past its first claim and has marked it, while the other claim,
\* whose attachments are not complete, was not read
C14_Witness ==
    /\ pc = "processing"
    /\ idx > 1
    /\ Len(claim_ids) = 1
    /\ claim_status[claim_ids[1]].AUDIT_STATUS = "PENDING"
    /\ \E d \in DOMAIN claim_status :
          /\ claim_status[d].ATTACHMENT_STATUS \in {"PARTIAL", "PENDING"}
          /\ claim_status[d].AUDIT_STATUS = "NULL"
          /\ get_claim_pdf_files(pdf, d) # {}

\* C15: a matching pass reads the claims whose AUDIT_STATUS is PENDING and
\* changes the AUDIT_STATUS of those claims only: to COMPLETE when the match
\* succeeded and to REJECTED when it failed; a PENDING claim that has no
\* processing results is REJECTED
C15_MatchingWrites ==
    [][/\ (pc = "idle" /\ pc' = "matching") =>
            /\ \A c \in Range(claim_ids') : AuditOf(claim_status, c) = "PENDING"
            /\ Len(claim_ids') =
                  Min(max_claims, Cardinality({c \in Claims : AuditOf(claim_status, c) = "PENDING"}))
       /\ (pc = "matching" /\ idx' = idx + 1) =>
            LET claim_id == claim_ids[idx] IN
            /\ AuditOf(claim_status, claim_id) = "PENDING"
            /\ AuditOf(claim_status', claim_id) =
                  IF matching_results[claim_id] THEN "COMPLETE" ELSE "REJECTED"
            /\ get_claim_pdf_files(pdf, claim_id) = {} =>
                  AuditOf(claim_status', claim_id) = "REJECTED"
            /\ \A c \in Claims \ {claim_id} :
                  AuditOf(claim_status', c) = AuditOf(claim_status, c)
       /\ (pc = "matching" /\ idx' = idx) => claim_status' = claim_status]_vars

\* a pass has gone through two claims: one passed the audit, the other had
\* no processing results and was rejected
C15_Witness ==
    /\ pc = "matching"
    /\ idx > Len(claim_ids)
    /\ \E c, d \in Range(claim_ids) :
          /\ claim_status[c].AUDIT_STATUS = "COMPLETE"
          /\ claim_status[d].AUDIT_STATUS = "REJECTED"
          /\ get_claim_pdf_files(pdf, d) = {}

\* the local paths a disk can hold
AllPaths == {LocalPath(BillId(f), f, CreateDate(f)) : f \in Files}

\* C16: when the processing of a picked claim completes (the claim has
\* downloaded files and at least one of them exists on the disk), its
\* AUDIT_STATUS is PENDING afterwards whatever it was before; a step of the
\* pass changes the AUDIT_STATUS of no other claim
C16_ProcessingMarks ==
    [][(pc = "processing" /\ idx' = idx + 1) =>
          LET claim_id == claim_ids[idx] IN
          /\ \A existing \in SUBSET AllPaths :
                (ProcessStep(existing) /\ get_claim_pdf_files(pdf, claim_id) \cap existing # {})
                    => AuditOf(claim_status', claim_id) = "PENDING"
          /\ \A c \in Claims \ {claim_id} :
                AuditOf(claim_status', c) = AuditOf(claim_status, c)]_vars

\* a pass has processed two claims, both are PENDING, and one of them was
\* PENDING already when an earlier pass had marked it
C16_Witness ==
    /\ pc = "processing"
    /\ idx > Len(claim_ids)
    /\ Len(claim_ids) = 2
    /\ \A i \in DOMAIN claim_ids :
          /\ claim_status[claim_ids[i]].AUDIT_STATUS = "PENDING"
          /\ get_claim_pdf_files(pdf, claim_ids[i]) # {}
    /\ cycles = MaxCycles

\* the DMS amount of a call, None read as 0
DmsAmount(x) == IF x = Null THEN 0 ELSE x

\* amount b is within half of tolerance_pct percent of total of amount a
WithinHalfTolerance(a, b, total, tolerance_pct) ==
    IF a >= b THEN 200 * (a - b) <= total * tolerance_pct
    ELSE 200 * (b - a) <= total * tolerance_pct

\* C17: with total_dms_amount = labour_dms + part_dms and tolerance =
\* total_dms_amount x tolerance_percentage / 100, the match succeeds iff the
\* extracted labour amount is within tolerance/2 of labour_dms and the
\* extracted parts amount is within tolerance/2 of part_dms; DMS 1000 and 500
\* at 0%: extracted (1000, 500) succeeds, extracted (1000, 600) fails with a
\* reason that names parts and not labour
C17_MatchingRule ==
    pc = "match_done" =>
        LET labour_dms == DmsAmount(match_args.labour_amount_dms)
            part_dms == DmsAmount(match_args.part_amount_dms)
            total == labour_dms + part_dms
            scenario == /\ match_args.labour_amount_dms = 1000
                        /\ match_args.part_amount_dms = 500
                        /\ match_args.extracted_labour = 1000
                        /\ match_args.tolerance_pct = 0
        IN /\ match_out.match_success <=>
                 /\ WithinHalfTolerance(labour_dms, match_args.extracted_labour,
                                        total, match_args.tolerance_pct)
                 /\ WithinHalfTolerance(part_dms, match_args.extracted_part,
                                        total, match_args.tolerance_pct)
           /\ (scenario /\ match_args.extracted_part = 500) => match_out.match_success
           /\ (scenario /\ match_args.extracted_part = 600) =>
                 /\ ~match_out.match_success
                 /\ match_out.reason = <<"parts">>

\* the call of the second scenario has returned a mismatch
C17_Witness ==
    /\ pc = "match_done"
    /\ match_args = [labour_amount_dms |-> 1000, part_amount_dms |-> 500,
                     extracted_labour |-> 1000, extracted_part |-> 600,
                     tolerance_pct |-> 0]
    /\ ~match_out.match_success

\* C18: in sequential mode as well as in parallel mode, when
\* log_download_status raises for one file, every other file enumerated for
\* the cycle has its outcome recorded by the time the cycle ends (the rows of
\* the selected claims were marked 'N' before the enumeration, so a row with
\* IS_LATEST_VERSION = 'Y' was written in this cycle)
C18_FailureConfined ==
    [][(pc = "download" /\ pc' = "idle") =>
          \A i \in DOMAIN all_files :
              \/ [FILE_ID |-> all_files[i].FILE_ID, cycle |-> cycles] \in db_failed'
              \/ \E k \in DOMAIN pdf' : /\ pdf'[k].FILE_ID = all_files[i].FILE_ID
                                         /\ pdf'[k].IS_LATEST_VERSION = "Y"]_vars

\* C19: a download that fails (timeout or any transport error) leads to one
\* recorded outcome FAILED for its file and the batch goes on: every step of
\* the download loop leaves exactly one record of its file, SUCCESS with the
\* path iff the download returned a path and no error and FAILED otherwise,
\* touches the record of no other file, and the cycle ends only when every
\* enumerated file, each enumerated once, has had its step
C19_FailedDownloadConfined ==
    [][/\ RecordStep =>
            LET row == all_files[idx]
                path == LocalPath(row.CLAIM_ID, row.FILE_ID, row.CREATE_DATE)
            IN /\ Cardinality(RowsOf(pdf', row.FILE_ID)) = 1
               /\ \A ok \in BOOLEAN, error \in ErrorMessages :
                     DownloadStep(ok, error) =>
                        \A k \in RowsOf(pdf', row.FILE_ID) :
                            /\ pdf'[k].IS_LATEST_VERSION = "Y"
                            /\ pdf'[k].STATUS = IF ok THEN "SUCCESS" ELSE "FAILED"
                            /\ ok => pdf'[k].LOCAL_FILE_PATH = path
               /\ \A f \in Files \ {row.FILE_ID} :
                     {pdf'[k] : k \in RowsOf(pdf', f)} = {pdf[k] : k \in RowsOf(pdf, f)}
               /\ pc' = "download"
               /\ all_files' = all_files
       /\ (pc = "download" /\ pc' # "download") => idx > Len(all_files)
       /\ (pc = "download") =>
            Cardinality({all_files[i].FILE_ID : i \in DOMAIN all_files}) = Len(all_files)]_vars

\* the loop has run to its end after the download of its first file failed:
\* the failure is recorded and the next file was downloaded and recorded
C19_Witness ==
    /\ pc = "download"
    /\ idx > Len(all_files)
    /\ Len(all_files) >= 2
    /\ \E k \in RowsOf(pdf, all_files[1].FILE_ID) :
          pdf[k].STATUS = "FAILED" /\ pdf[k].IS_LATEST_VERSION = "Y"
    /\ \E k \in RowsOf(pdf, all_files[2].FILE_ID) :
          pdf[k].STATUS = "SUCCESS" /\ pdf[k].IS_LATEST_VERSION = "Y"

\* the phases of a download cycle in the order of the code
Rank(p) ==
    CASE p = "idle" -> 0
      [] p = "resolver" -> 1
      [] p = "mark" -> 2
      [] p = "query" -> 3
      [] p = "count" -> 4
      [] p = "download" -> 5

\* the columns of CLAIM_STATUS that the upsert of the reconciliation writes
UpsertColumns(cs) ==
    [c \in DOMAIN cs |-> <<cs[c].LABOUR_AMOUNT_DMS, cs[c].LAST_DMS_UPDATE_DATE>>]

\* the TOTAL_FILES_COUNT column
TotalColumn(cs) == [c \in DOMAIN cs |-> cs[c].TOTAL_FILES_COUNT]

\* C20: within one download cycle all claim upserts of the reconciliation
\* finish before any record is marked not-latest and before any enumeration
\* query runs, and the enumeration with its TOTAL_FILES_COUNT updates
\* finishes before the first download starts
C20_PhaseOrder ==
    [][/\ pc' # "idle" => Rank(pc') \in {Rank(pc), Rank(pc) + 1}
       /\ UpsertColumns(claim_status') # UpsertColumns(claim_status) => pc = "idle"
       /\ (\E f \in Files : \E k \in RowsOf(pdf, f) :
               /\ pdf[k].IS_LATEST_VERSION = "Y"
               /\ \E j \in RowsOf(pdf', f) : pdf'[j].IS_LATEST_VERSION = "N")
            => pc = "mark"
       /\ (all_files' # all_files /\ all_files' # <<>>) => pc = "query"
       /\ TotalColumn(claim_status') # TotalColumn(claim_status) => pc \in {"idle", "count"}
       /\ pc' = "download" =>
            /\ all_files' # <<>>
            /\ \A i \in DOMAIN all_files' :
                  claim_status'[all_files'[i].CLAIM_ID].TOTAL_FILES_COUNT =
                     Cardinality({j \in DOMAIN all_files' :
                                     all_files'[j].CLAIM_ID = all_files'[i].CLAIM_ID})
       /\ pdf' # pdf => pc \in {"mark", "download"}]_vars

\* the first download of a cycle is about to start: two claims have been
\* upserted and selected, records of an earlier cycle are marked not-latest
\* and files of both claims are enumerated and counted
C20_Witness ==
    /\ pc = "download"
    /\ idx = 1
    /\ Len(claim_ids) = 2
    /\ \A c \in Claims : \E i \in DOMAIN all_files : all_files[i].CLAIM_ID = c
    /\ \E k \in DOMAIN pdf : pdf[k].IS_LATEST_VERSION = "N"
    /\ \A k \in DOMAIN pdf : pdf[k].IS_LATEST_VERSION = "N"

\* C26: every completed log_download_status, insert or update, SUCCESS or
\* FAILED, leaves the record of its file with IS_LATEST_VERSION = 'Y', also
\* when the resolver had marked that record not-latest
C26_WriteSetsLatest ==
    [][RecordStep =>
          /\ RowsOf(pdf', all_files[idx].FILE_ID) # {}
          /\ \A k \in RowsOf(pdf', all_files[idx].FILE_ID) :
                pdf'[k].IS_LATEST_VERSION = "Y"]_vars

\* a record that held a path from an earlier cycle and was marked not-latest
\* has been written again with a FAILED outcome and is latest, next to a
\* record inserted with SUCCESS
C26_Witness ==
    /\ pc = "download"
    /\ idx > Len(all_files)
    /\ \E k, j \in DOMAIN pdf :
          /\ pdf[k].STATUS = "FAILED"
          /\ pdf[k].LOCAL_FILE_PATH # Null
          /\ pdf[k].IS_LATEST_VERSION = "Y"
          /\ pdf[j].STATUS = "SUCCESS"
          /\ pdf[j].IS_LATEST_VERSION = "Y"
          /\ pdf[j].CLAIM_ID # pdf[k].CLAIM_ID

\* C27: in every reachable state there is at most one record per FILE_ID: a
\* log_download_status for a file that has a record updates that record,
\* whatever the earlier and the later status and whether or not the record
\* was marked not-latest in between
C27_OneRecordPerFile ==
    \A f \in Files : Cardinality(RowsOf(pdf, f)) <= 1

\* every file has been recorded, in more than one cycle, and one record went
\* from SUCCESS to FAILED and kept its path
C27_Witness ==
    /\ pc = "idle"
    /\ cycles = MaxCycles
    /\ \A f \in Files : Cardinality(RowsOf(pdf, f)) = 1
    /\ \E k \in DOMAIN pdf : pdf[k].STATUS = "FAILED" /\ pdf[k].LOCAL_FILE_PATH # Null
    /\ \E k \in DOMAIN pdf : pdf[k].IS_LATEST_VERSION = "N"

\* C28: at every cycle boundary (no download cycle in progress), for every
\* claim the stored ATTACHMENT_STATUS is COMPLETE if and only if the stored
\* DOWNLOADED_FILES_COUNT equals the stored TOTAL_FILES_COUNT and
\* TOTAL_FILES_COUNT > 0
C28_StoredComplete ==
    pc = "idle" =>
        \A c \in DOMAIN claim_status :
            claim_status[c].ATTACHMENT_STATUS = "COMPLETE" <=>
                /\ claim_status[c].TOTAL_FILES_COUNT # Null
                /\ claim_status[c].DOWNLOADED_FILES_COUNT = claim_status[c].TOTAL_FILES_COUNT
                /\ claim_status[c].TOTAL_FILES_COUNT > 0

\* a cycle has ended with one claim COMPLETE on two files and another claim
\* that has a file count and no successful download
C28_Witness ==
    /\ pc = "idle"
    /\ \E c, d \in DOMAIN claim_status :
          /\ claim_status[c].ATTACHMENT_STATUS = "COMPLETE"
          /\ claim_status[c].TOTAL_FILES_COUNT = 2
          /\ claim_status[d].ATTACHMENT_STATUS = "PENDING"
          /\ claim_status[d].TOTAL_FILES_COUNT = 1
          /\ claim_status[d].DOWNLOADED_FILES_COUNT = 0

\* is p a prefix of s?
IsPrefix(p, s) == Len(p) <= Len(s) /\ \A i \in DOMAIN p : p[i] = s[i]

\* C29: the ERROR_MESSAGE that log_download_status stores is the supplied
\* message when it has at most ErrorLimit characters and otherwise its first
\* ErrorLimit characters: never longer than the bound and always a prefix of
\* the supplied one; when no message is supplied, NULL is stored
C29_ErrorTruncated ==
    [][RecordStep =>
          \A k \in RowsOf(pdf', all_files[idx].FILE_ID) :
              /\ Len(pdf'[k].ERROR_MESSAGE) <= ErrorLimit
              /\ \A error \in ErrorMessages :
                    /\ DownloadStep(FALSE, error) =>
                          /\ IsPrefix(pdf'[k].ERROR_MESSAGE, error)
                          /\ Len(error) <= ErrorLimit => pdf'[k].ERROR_MESSAGE = error
                          /\ Len(error) > ErrorLimit => Len(pdf'[k].ERROR_MESSAGE) = ErrorLimit
                    /\ DownloadStep(TRUE, error) => pdf'[k].ERROR_MESSAGE = <<>>]_vars

\* failed downloads have been recorded with a message and a successful one
\* with NULL
C29_Witness ==
    /\ pc = "download"
    /\ idx > 2
    /\ \E k, j \in DOMAIN pdf :
          /\ pdf[k].STATUS = "FAILED"
          /\ Len(pdf[k].ERROR_MESSAGE) = ErrorLimit
          /\ pdf[k].IS_LATEST_VERSION = "Y"
          /\ pdf[j].STATUS = "SUCCESS"
          /\ pdf[j].ERROR_MESSAGE = <<>>
          /\ pdf[j].IS_LATEST_VERSION = "Y"
          /\ pdf[j].CLAIM_ID = pdf[k].CLAIM_ID

\* C24: no operation other than recording an outcome changes the STATUS of an
\* existing FileRecord: over every step that is not a step of the download loop
\* recording an outcome, each record that survives the step keeps its STATUS.
C24_StatusOnlyByRecord ==
    [][(~RecordStep) =>
        \A f \in Files : \A i \in RowsOf(pdf, f) : \A j \in RowsOf(pdf', f) :
            pdf'[j].STATUS = pdf[i].STATUS]_vars

\* C25: a FileRecord is deleted only if it is FAILED and not the latest version:
\* over every step, a file whose record is in the table before the step and gone
\* after it had STATUS FAILED and IS_LATEST_VERSION 'N'; so no SUCCESS record and
\* no latest record is ever deleted.
C25_DeleteOnlyObsoleteFailed ==
    [][\A f \in Files : \A i \in RowsOf(pdf, f) :
            RowsOf(pdf', f) = {} =>
                pdf[i].STATUS = "FAILED" /\ pdf[i].IS_LATEST_VERSION = "N"]_vars

\* C30: with the audit_matching_job running beside a processing pass, a claim
\* whose AUDIT_STATUS is COMPLETE or REJECTED is never set back to PENDING: no
\* step takes a terminal AUDIT_STATUS to PENDING.
C30_TerminalNotReset ==
    [][\A c \in Claims :
          AuditOf(claim_status, c) \in Terminal =>
              AuditOf(claim_status', c) # "PENDING"]_vars

\* the values derived from the tracking table and the claim's TOTAL_FILES_COUNT
DerivedStatus(cs, pdf_t, c) == AttachmentStatusOf(LatestSuccess(pdf_t, c), cs[c].TOTAL_FILES_COUNT)

\* C23: two log_download_status calls for different files of one claim run
\* concurrently; the last status write wins: the UPDATE of each call stores the
\* status and the count computed from the statistics that call read, whatever
\* the other call has merged or written since.
C23_LastWriteWins ==
    [][\A f \in RaceFiles :
          (writers[f].pc = "write" /\ writers'[f].pc = "done") =>
              /\ claim_status'[RaceClaim].DOWNLOADED_FILES_COUNT = writers[f].success_count
              /\ claim_status'[RaceClaim].ATTACHMENT_STATUS =
                     AttachmentStatusOf(writers[f].success_count, writers[f].total_files)]_vars

\* both calls have returned and the stored ATTACHMENT_STATUS or
\* DOWNLOADED_FILES_COUNT differs from the value derived from the final records
C23_Witness ==
    /\ DOMAIN writers = RaceFiles
    /\ \A f \in RaceFiles : writers[f].pc = "done"
    /\ \/ claim_status[RaceClaim].DOWNLOADED_FILES_COUNT # LatestSuccess(pdf, RaceClaim)
       \/ claim_status[RaceClaim].ATTACHMENT_STATUS # DerivedStatus(claim_status, pdf, RaceClaim)

\* C21: no upstream update is lost by a cycle that stopped after the upserts:
\* after a cycle that ran every statement, every file of every claim in the
\* upstream view has a latest FileRecord taken at the claim's current
\* LAST_DMS_UPDATE_DATE (the claim was selected again, its old records were
\* replaced and its files were downloaded again).
C21_NoUpdateLost ==
    pc = "idle" =>
        \A c \in DOMAIN claim_status : \A f \in FilesOfClaims(<<c>>) :
            \E i \in RowsOf(pdf, f) :
                /\ pdf[i].IS_LATEST_VERSION = "Y"
                /\ claim_last_modified[f] = claim_status[c].LAST_DMS_UPDATE_DATE

\* C22: after a cycle that ran every statement, the stored ATTACHMENT_STATUS and
\* DOWNLOADED_FILES_COUNT of every claim equal the values derived from its
\* latest FileRecords and its TOTAL_FILES_COUNT, whatever recomputation an
\* earlier cycle has left out.
C22_StatusRestored ==
    pc = "idle" =>
        \A c \in DOMAIN claim_status :
            /\ claim_status[c].DOWNLOADED_FILES_COUNT = LatestSuccess(pdf, c)
            /\ claim_status[c].ATTACHMENT_STATUS = DerivedStatus(claim_status, pdf, c)

\* C31: the upserts of a reconciliation pass leave ATTACHMENT_STATUS,
\* TOTAL_FILES_COUNT and DOWNLOADED_FILES_COUNT of every claim that had a row as
\* they were, and create the row of a claim that had none with ATTACHMENT_STATUS
\* PENDING and AUDIT_STATUS null.
C31_UpsertFrame ==
    [][(pc = "idle" /\ pc' = "resolver") =>
          \A c \in DOMAIN claim_status' :
              IF c \in DOMAIN claim_status
              THEN /\ claim_status'[c].ATTACHMENT_STATUS = claim_status[c].ATTACHMENT_STATUS
                   /\ claim_status'[c].TOTAL_FILES_COUNT = claim_status[c].TOTAL_FILES_COUNT
                   /\ claim_status'[c].DOWNLOADED_FILES_COUNT =
                          claim_status[c].DOWNLOADED_FILES_COUNT
              ELSE /\ claim_status'[c].ATTACHMENT_STATUS = "PENDING"
                   /\ claim_status'[c].AUDIT_STATUS = "NULL"]_vars

\* the second pass has upserted a claim whose row is COMPLETE with one file
\* downloaded, storing an advanced timestamp, and has created the row of a
\* claim it saw for the first time
C31_Witness ==
    /\ pc = "resolver"
    /\ cycles = 2
    /\ \E c, d \in DOMAIN claim_status :
          /\ claim_status[c].ATTACHMENT_STATUS = "COMPLETE"
          /\ claim_status[c].DOWNLOADED_FILES_COUNT = 1
          /\ claim_status[c].LAST_DMS_UPDATE_DATE = 2
          /\ c \in Range(claim_ids)
          /\ claim_status[d].TOTAL_FILES_COUNT = Null
          /\ claim_status[d].ATTACHMENT_STATUS = "PENDING"

\* C32: when a download cycle ends after its enumeration (with no file found,
\* or after the download loop), every claim the cycle selected has
\* ATTACHMENT_STATUS COMPLETE if and only if the number of its latest SUCCESS
\* FileRecords equals its TOTAL_FILES_COUNT and that count is > 0.
C32_SelectedConsistent ==
    [][(pc \in {"query", "download"} /\ pc' = "idle") =>
          \A c \in Range(claim_ids) :
              (claim_status'[c].ATTACHMENT_STATUS = "COMPLETE") <=>
                  /\ LatestSuccess(pdf', c) = claim_status'[c].TOTAL_FILES_COUNT
                  /\ claim_status'[c].TOTAL_FILES_COUNT > 0]_vars

\* C33: whenever a matching pass writes COMPLETE or REJECTED to a claim, the
\* ATTACHMENT_STATUS of that claim is COMPLETE at that moment.
C33_AuditedWhenComplete ==
    [][(pc = "matching" /\ idx' = idx + 1) =>
          claim_status[claim_ids[idx]].ATTACHMENT_STATUS = "COMPLETE"]_vars

\* C34: a matching pass never sets a claim to REJECTED for lack of processing
\* results (get_claim_pdf_files returns no path for it) while the claim has a
\* FileRecord with STATUS SUCCESS and a stored LOCAL_FILE_PATH.
C34_RejectedWithoutFiles ==
    [][(/\ pc = "matching"
        /\ idx' = idx + 1
        /\ get_claim_pdf_files(pdf, claim_ids[idx]) = {}) =>
          ~ \E i \in DOMAIN pdf :
                /\ pdf[i].CLAIM_ID = claim_ids[idx]
                /\ pdf[i].STATUS = "SUCCESS"
                /\ pdf[i].LOCAL_FILE_PATH # Null]_vars

\* the latest FileRecord of file f is a successful download
DownloadedNow(f) ==
    \E i \in RowsOf(pdf, f) : pdf[i].STATUS = "SUCCESS" /\ pdf[i].IS_LATEST_VERSION = "Y"

\* C35: for the claim with two files, which stays in the upstream view with
\* its files unchanged once it has entered: if each of its files is downloaded
\* successfully at some time, then its ATTACHMENT_STATUS is COMPLETE at some time.
C35_EventuallyComplete ==
    (<>DownloadedNow(1) /\ <>DownloadedNow(2)) =>
        <>(RaceClaim \in DOMAIN claim_status
              /\ claim_status[RaceClaim].ATTACHMENT_STATUS = "COMPLETE")

\* KeptClaim is ready for processing: attachment status COMPLETE, audit status
\* null, and a latest SUCCESS record with a stored path; no other claim has
\* the same LAST_DMS_UPDATE_DATE, so ORDER BY leaves no choice
ReadyKept ==
    /\ KeptClaim \in DOMAIN claim_status
    /\ claim_status[KeptClaim].ATTACHMENT_STATUS = "COMPLETE"
    /\ claim_status[KeptClaim].AUDIT_STATUS = "NULL"
    /\ get_claim_pdf_files(pdf, KeptClaim) # {}
    /\ \A c \in DOMAIN claim_status \ {KeptClaim} :
          claim_status[c].LAST_DMS_UPDATE_DATE # claim_status[KeptClaim].LAST_DMS_UPDATE_DATE

\* C36: under repeated processing passes a claim with attachment status
\* COMPLETE, audit status null and a latest SUCCESS file on the disk is
\* eventually processed (audit status PENDING) or stops being ready, whatever
\* other claims are stored and with the per-batch limit at 1
C36_EventuallyProcessed ==
    [](ReadyKept => <>(~ReadyKept \/ claim_status[KeptClaim].AUDIT_STATUS = "PENDING"))

\* C37: a parallel cycle ends with the tables a sequential cycle leaves for
\* the same files_df and the same download results, whatever the order in
\* which the downloads complete; at most one log_download_status call of the
\* cycle is in progress at any time
C37_ParallelAsSequential ==
    /\ Cardinality({f \in DOMAIN writers : writers[f].pc = "logging"}) <= 1
    /\ (writers # <<>> /\ \A f \in DOMAIN writers : writers[f].pc = "recorded") =>
          /\ claim_status = sequential.cs
          /\ pdf = sequential.pdf

\* the end of a parallel cycle of three files in which file 2 was recorded
\* before file 1 (the call for file 2 counted one SUCCESS record of the claim,
\* the call for file 1 two) and the download of file 3 failed
C37_Witness ==
    /\ DOMAIN writers = {1, 2, 3}
    /\ \A f \in DOMAIN writers : writers[f].pc = "recorded"
    /\ writers[2].success_count = 1
    /\ writers[1].success_count = 2
    /\ writers[3].status = "FAILED"
    /\ claim_status = sequential.cs
    /\ pdf = sequential.pdf

\* C38: the selection of a reconciliation pass is computed against the local
\* table as it was before the upserts of the pass: a claim whose upstream
\* timestamp is greater than the stored one is returned by the pass that
\* stores the new timestamp, and a claim without a local row is returned by
\* the pass that creates the row
C38_SnapshotBeforeUpserts ==
    [][ReconcileStep =>
         \A c \in Claims :
            /\ (c \in DOMAIN claim_status
                  /\ dms_claims'[c].UPDATE_DATE > claim_status[c].LAST_DMS_UPDATE_DATE) =>
                  /\ c \in Range(claim_ids')
                  /\ claim_status'[c].LAST_DMS_UPDATE_DATE = dms_claims'[c].UPDATE_DATE
            /\ (c \notin DOMAIN claim_status /\ dms_claims'[c].UPDATE_DATE > 0) =>
                  /\ c \in Range(claim_ids')
                  /\ c \in DOMAIN claim_status']_vars

\* the second pass has returned a COMPLETE claim whose new timestamp it has
\* stored, together with a claim it has seen for the first time
C38_Witness ==
    /\ pc = "resolver"
    /\ cycles = 2
    /\ \E c, d \in Range(claim_ids) :
          /\ claim_status[c].ATTACHMENT_STATUS = "COMPLETE"
          /\ claim_status[c].LAST_DMS_UPDATE_DATE = 2
          /\ dms_claims[c].UPDATE_DATE = 2
          /\ claim_status[d].ATTACHMENT_STATUS = "PENDING"
          /\ claim_status[d].TOTAL_FILES_COUNT = Null
          /\ claim_status[d].LAST_DMS_UPDATE_DATE = 1

\* C39: the CLAIM_ID of a record never changes once the record exists; a
\* log_download_status call for an existing FILE_ID that supplies another
\* claim id leaves the stored CLAIM_ID, changes the CLAIM_STATUS row of no
\* claim but the supplied one, and sets the supplied claim's count to the
\* number of its own latest SUCCESS records
C39_ClaimIdKept ==
    [][/\ \A i \in DOMAIN pdf :
             /\ RowsOf(pdf', pdf[i].FILE_ID) # {}
             /\ \A j \in RowsOf(pdf', pdf[i].FILE_ID) : pdf'[j].CLAIM_ID = pdf[i].CLAIM_ID
       /\ \A claim_id \in Claims, ok \in BOOLEAN, error \in ErrorMessages :
             DownloadStepFor(claim_id, ok, error) =>
                /\ \A d \in DOMAIN claim_status \ {claim_id} :
                      claim_status'[d] = claim_status[d]
                /\ claim_id \in DOMAIN claim_status =>
                      claim_status'[claim_id].DOWNLOADED_FILES_COUNT
                         = LatestSuccess(pdf', claim_id)]_vars

\* the record of file 3 was created under claim 2, and a later call that
\* supplied claim 1 has stored its path: the record is still one of claim 2
C39_Witness ==
    \E i \in DOMAIN pdf :
        /\ pdf[i].FILE_ID = 3
        /\ pdf[i].CLAIM_ID = 2
        /\ pdf[i].STATUS = "SUCCESS"
        /\ pdf[i].LOCAL_FILE_PATH = LocalPath(1, 3, CreateDate(3))

TypeOK ==
    /\ pc \in {"idle", "resolver", "mark", "query", "count", "download",
              "processing", "matching", "match_call", "match_done", "interrupted"}
    /\ DOMAIN claim_status \subseteq Claims
    /\ cycles \in 0..MaxCycles
====
